---- MODULE Spec2Model ----
(***************************************************************************)
(* A model of the review-analysis pipeline: the BM25 search index          *)
(* (utils/semantic_search.py), the batch processor                         *)
(* (utils/main_processor.py) and the entity tagger                         *)
(* (utils/ner_extractor.py).                                               *)
(*                                                                         *)
(* Conventions.                                                            *)
(*  - A text is a sequence of raw words (strings); the conversions that    *)
(*    the code applies to text (lower-casing, punctuation stripping,       *)
(*    stop-word and length filtering) are tables over the words used.      *)
(*  - Python list positions are 0-based; sequences here are 1-based, so    *)
(*    document position i here is index i-1 in the code.                   *)
(*  - Floating point values are fixed-point integers: k1 in tenths, b in   *)
(*    hundredths, idf in 1/10000, the tf factor in 1/1000.                 *)
(***************************************************************************)
EXTENDS Integers, Sequences, FiniteSets, TLC

VARIABLES
    documents,        \* SemanticSearch.documents
    metadata,         \* SemanticSearch.metadata
    tokenized_docs,   \* SemanticSearch.tokenized_docs
    bm25,             \* SemanticSearch.bm25 (a BM25 object)
    lastSearch,       \* the outcome of the last search call
    rebuild,          \* the position of an index_documents call in progress
    indexed,          \* the reviews given to the last index_documents call
    model_type,       \* NERExtractor.model_type
    primary_model,    \* NERExtractor.primary_model
    processed_count,  \* NERExtractor.processed_count
    monitor,          \* the reviews, memory samples and cleanups since the last reset
    nerStatus,        \* "new", then "built" or "failed" once __init__ ran, and the
                      \* machine it ran on until the caller takes the tagger
    nerOut,           \* the outcome of the last call on the tagger
    processed_reviews, \* OpinionExtractor.processed_reviews
    graph,            \* KnowledgeRepresentation.graph, a set of triples
    csvOut,           \* the outcome of the last process_csv call
    probe,            \* a call of one of the pipeline's functions: its input and output
    batch,            \* a batch_extract call in progress: its futures and results
    requests          \* the process_csv call of each request thread: its position
                      \* and its local list processed_reviews

indexVars == <<documents, metadata, tokenized_docs, bm25>>
searchVars == <<documents, metadata, tokenized_docs, bm25, lastSearch, rebuild, indexed>>
nerVars == <<model_type, primary_model, processed_count, monitor, nerStatus, nerOut>>
csvVars == <<processed_reviews, graph, csvOut>>
vars == <<documents, metadata, tokenized_docs, bm25, lastSearch, rebuild, indexed,
          model_type, primary_model, processed_count, monitor, nerStatus, nerOut,
          processed_reviews, graph, csvOut, probe, batch, requests>>

----------------------------------------------------------------------------
(* Bounds of the model *)

MaxDocs == 3
MaxTopK == 3

----------------------------------------------------------------------------
(* Sequence helpers *)

RECURSIVE Flatten(_)
Flatten(ss) == IF ss = <<>> THEN <<>> ELSE Head(ss) \o Flatten(Tail(ss))

RECURSIVE SumSeq(_)
SumSeq(s) == IF s = <<>> THEN 0 ELSE Head(s) + SumSeq(Tail(s))

Range(s) == {s[i] : i \in DOMAIN s}

Count(s, x) == Cardinality({i \in DOMAIN s : s[i] = x})

Prefix(s, n) == IF n >= Len(s) THEN s ELSE SubSeq(s, 1, n)

Min(a, b) == IF a <= b THEN a ELSE b

----------------------------------------------------------------------------
(* Text preprocessing: SemanticSearch.preprocess_text *)

\* text.lower() followed by re.sub(r'[^\w\s]', ' ', ...) and split(): the
\* lower-cased words a raw word yields once punctuation became spaces.
NormalizeWord(w) ==
    CASE w = "The"       -> <<"the">>
      [] w = "Defective" -> <<"defective">>
      [] w = "Battery!"  -> <<"battery">>
      [] w = "TV"        -> <<"tv">>
      [] w = "wi-fi"     -> <<"wi", "fi">>
      [] w = "Great,"    -> <<"great">>
      [] w = "Battery"   -> <<"battery">>
      [] w = "@x"        -> <<"x">>
      [] w = "The Defective"     -> <<"the", "defective">>
      [] w = "defective Battery" -> <<"defective", "battery">>
      [] w = "it is"     -> <<"it", "is">>
      [] OTHER           -> <<w>>

\* len(word) of the lower-cased words in use
WordLen(w) ==
    CASE w \in {"x"}                               -> 1
      [] w \in {"tv", "is", "it", "wi", "fi", "ok"} -> 2
      [] w \in {"the"}                             -> 3
      [] w \in {"great"}                           -> 5
      [] w \in {"screen"}                          -> 6
      [] w \in {"battery"}                         -> 7
      [] w \in {"defective"}                       -> 9
      [] OTHER                                     -> 4

english_stopwords ==
    {"the", "and", "is", "in", "to", "of", "a", "for", "it", "on", "with", "as",
     "this", "that", "at", "by", "an", "be", "are", "from", "was", "or", "but",
     "not", "have", "has", "had", "they", "you", "we", "he", "she", "his", "her",
     "their", "them", "our", "us", "were", "can", "will", "would", "should",
     "could", "may", "might", "do", "does", "did", "so", "if", "about", "which",
     "who", "whom", "what", "when", "where", "why", "how", "all", "any", "some",
     "no", "more", "most", "other", "such", "only", "own", "same", "than", "too",
     "very", "just", "also", "into", "over", "after", "before", "between",
     "because", "while", "during", "each", "few", "many", "both", "every",
     "either", "neither"}

MinTokenLen == 2

RECURSIVE FilterWords(_)
FilterWords(ws) ==
    IF ws = <<>> THEN <<>>
    ELSE LET w == Head(ws)
         IN  (IF w \notin english_stopwords /\ WordLen(w) > MinTokenLen
              THEN <<w>> ELSE <<>>) \o FilterWords(Tail(ws))

preprocess_text(text) ==
    FilterWords(Flatten([i \in DOMAIN text |-> NormalizeWord(text[i])]))

----------------------------------------------------------------------------
(* BM25 (semantic_search.py, class BM25) *)

K1Default == 12     \* k1 = 1.2, in tenths
BDefault == 75      \* b = 0.75, in hundredths

\* avgdl is kept as the fraction num/den; ZeroAvg is the value 0
ZeroAvg == [num |-> 0, den |-> 1]

EmptyDict == [t \in {} |-> 0]

\* BM25.__init__
NewBM25(k1, b) ==
    [k1 |-> k1, b |-> b, corpus |-> <<>>, doc_freqs |-> <<>>, idf |-> EmptyDict,
     doc_len |-> <<>>, avgdl |-> ZeroAvg, N |-> 0]

\* math.log of an odd integer, in 1/10000
LnOdd(n) ==
    CASE n = 1  -> 0
      [] n = 3  -> 10986
      [] n = 5  -> 16094
      [] n = 7  -> 19459
      [] n = 9  -> 21972
      [] n = 11 -> 23979
      [] n = 13 -> 25649
      [] n = 15 -> 27081
      [] n = 17 -> 28332
      [] n = 19 -> 29444
      [] n = 21 -> 30445
      [] n = 23 -> 31355
      [] n = 25 -> 32189

\* the fraction of the logarithm upside down
IdfInverted(N, freq) == LnOdd(2 * freq + 1) - LnOdd(2 * (N - freq) + 1)

\* the logarithm plus one, as the variants of BM25 that keep idf above 0
\* for most tokens have it
IdfPlusOne(N, freq) == LnOdd(2 * (N - freq) + 1) - LnOdd(2 * freq + 1) + 10000

\* math.log((N - freq + 0.5) / (freq + 0.5)) = ln(2(N-freq)+1) - ln(2 freq+1)
IdfOf(N, freq) == LnOdd(2 * (N - freq) + 1) - LnOdd(2 * freq + 1)

\* collections.Counter(doc)
Counter(doc) == [t \in Range(doc) |-> Count(doc, t)]

\* df: the number of documents of the corpus that hold the token
DocFreq(corpus, t) == Cardinality({i \in DOMAIN corpus : t \in Range(corpus[i])})

Vocabulary(corpus) == UNION {Range(corpus[i]) : i \in DOMAIN corpus}

\* the statements of BM25.fit, one operator each
FitCorpus(bm, corpus) == [bm EXCEPT !.corpus = corpus]
FitN(bm) == [bm EXCEPT !.N = Len(bm.corpus)]
FitDocLen(bm) == [bm EXCEPT !.doc_len = [i \in DOMAIN bm.corpus |-> Len(bm.corpus[i])]]
FitAvgdl(bm) ==
    [bm EXCEPT !.avgdl = IF bm.N > 0 THEN [num |-> SumSeq(bm.doc_len), den |-> bm.N]
                         ELSE ZeroAvg]
FitIdfClear(bm) == [bm EXCEPT !.idf = EmptyDict]
FitIdf(bm) ==
    [bm EXCEPT !.idf = [t \in Vocabulary(bm.corpus) |->
                            IdfOf(bm.N, DocFreq(bm.corpus, t))]]
FitDocFreqsClear(bm) == [bm EXCEPT !.doc_freqs = <<>>]
FitDocFreqsAppend(bm, j) ==
    [bm EXCEPT !.doc_freqs = Append(bm.doc_freqs, Counter(bm.corpus[j]))]

RECURSIVE FitDocFreqsFrom(_, _)
FitDocFreqsFrom(bm, j) ==
    IF j > Len(bm.corpus) THEN bm
    ELSE FitDocFreqsFrom(FitDocFreqsAppend(bm, j), j + 1)

\* BM25.fit, run to completion
fit(bm, corpus) ==
    FitDocFreqsFrom(
        FitDocFreqsClear(FitIdf(FitIdfClear(FitAvgdl(FitDocLen(FitN(
            FitCorpus(bm, corpus))))))), 1)

\* tf * (k1 + 1) / (tf + k1 * (1 - b + b * (doc_len / avgdl))), in 1/1000
TfFactor(bm, tf, dl) ==
    (tf * (bm.k1 + 10) * 100000 * bm.avgdl.num)
        \div (1000 * tf * bm.avgdl.num
              + bm.k1 * ((100 - bm.b) * bm.avgdl.num + bm.b * dl * bm.avgdl.den))

\* the contribution of one query token to the score of document i
TermScore(bm, i, token) ==
    IF token \in DOMAIN bm.doc_freqs[i]
    THEN (IF token \in DOMAIN bm.idf THEN bm.idf[token] ELSE 0)
             * TfFactor(bm, bm.doc_freqs[i][token], bm.doc_len[i])
    ELSE 0

RECURSIVE DocScore(_, _, _)
DocScore(bm, i, query) ==
    IF query = <<>> THEN 0
    ELSE TermScore(bm, i, Head(query)) + DocScore(bm, i, Tail(query))

\* get_scores raises: doc_len[i] or scores[i] out of range (IndexError), or
\* a division by avgdl = 0 (ZeroDivisionError)
GetScoresRaises(bm, query) ==
    \E i \in DOMAIN bm.doc_freqs :
        \/ i > Len(bm.doc_len)
        \/ i > bm.N
        \/ /\ bm.avgdl.num = 0
           /\ \E q \in DOMAIN query : query[q] \in DOMAIN bm.doc_freqs[i]

\* BM25.get_scores, when it does not raise: np.zeros(N) with scores[i] set
\* for every entry of doc_freqs
get_scores(bm, query) ==
    [i \in 1..bm.N |-> IF i <= Len(bm.doc_freqs) THEN DocScore(bm, i, query) ELSE 0]

\* np.argsort(scores): the default sort is not stable, so every permutation
\* that puts the scores in ascending order is a possible outcome
RECURSIVE ArgsortOutcomes(_, _)
ArgsortOutcomes(scores, S) ==
    IF S = {} THEN {<<>>}
    ELSE UNION {{<<i>> \o r : r \in ArgsortOutcomes(scores, S \ {i})} :
                  i \in {m \in S : \A o \in S : scores[m] <= scores[o]}}

Reverse(s) == [i \in DOMAIN s |-> s[Len(s) + 1 - i]]

RECURSIVE KeepPositive(_, _)
KeepPositive(scores, idxs) ==
    IF idxs = <<>> THEN <<>>
    ELSE (IF scores[Head(idxs)] > 0
          THEN <<[idx |-> Head(idxs), score |-> scores[Head(idxs)]]>>
          ELSE <<>>) \o KeepPositive(scores, Tail(idxs))

\* argsort(scores)[:n]: the order not reversed
TopNAscending(scores, order, n) == KeepPositive(scores, Prefix(order, n))

\* BM25.get_top_n on already computed scores: argsort(scores)[::-1][:n],
\* then the entries with score > 0
TopN(scores, order, n) == KeepPositive(scores, Prefix(Reverse(order), n))

get_top_n(bm, query, order, n) == TopN(get_scores(bm, query), order, n)

----------------------------------------------------------------------------
(* SemanticSearch (semantic_search.py) *)

\* A processed review as index_documents reads it: entities is the dict
\* {type: [texts]} as a sequence of <<type, texts>> in insertion order.
Review(id, text, entities, products, brands) ==
    [id |-> id, original_text |-> text, entities |-> entities,
     products |-> products, brands |-> brands]

SampleReviews ==
    { Review("r_tv", <<"The", "Defective", "TV">>, <<>>, <<"TV">>, <<>>),
      Review("r_bat", <<"defective", "Battery!", "Great,">>,
             <<<<"Product", <<"battery">>>>>>, <<"battery">>, <<>>),
      Review("r_scr", <<"wi-fi">>, <<>>, <<>>, <<"screen">>),
      Review("r_stop", <<"it", "is", "ok">>, <<>>, <<>>, <<>>) }

SampleQueries ==
    { <<>>, <<"The", "TV">>, <<"Defective">>, <<"Great,", "Battery!">>,
      <<"screen", "defective">> }

\* every list of at most n reviews
ReviewLists(n) == UNION {[1..k -> SampleReviews] : k \in 0..n}

\* the text indexed for a review: original_text, then the entity texts of
\* every type, the products and the brands
TextContent(review) ==
    review.original_text
        \o Flatten([e \in DOMAIN review.entities |-> review.entities[e][2]])
        \o review.products \o review.brands

\* the three appends of one iteration of the loop of index_documents
AppendDocument(docs, review) == Append(docs, TextContent(review))
AppendTokens(toks, review) == Append(toks, preprocess_text(TextContent(review)))
AppendMetadata(meta, review) == Append(meta, review)

\* "if self.tokenized_docs: self.bm25.fit(self.tokenized_docs)"
FitIfDocs(bm, toks) == IF toks # <<>> THEN fit(bm, toks) ELSE bm

\* SemanticSearch.index_documents, run to completion: the new index
index_documents(bm, reviews) ==
    LET toks == [i \in DOMAIN reviews |-> preprocess_text(TextContent(reviews[i]))]
    IN  [documents      |-> [i \in DOMAIN reviews |-> TextContent(reviews[i])],
         metadata       |-> reviews,
         tokenized_docs |-> toks,
         bm25           |-> FitIfDocs(bm, toks)]

NoSearch == [query |-> <<>>, top_k |-> 0, raised |-> FALSE, results |-> <<>>,
             called |-> FALSE]

\* the loop of search over the (idx, score) pairs of get_top_n
RECURSIVE BuildResults(_, _)
BuildResults(meta, top) ==
    IF top = <<>> THEN <<>>
    ELSE (IF Head(top).score > 0
          THEN <<[idx |-> Head(top).idx, score |-> Head(top).score,
                  id |-> meta[Head(top).idx].id]>>
          ELSE <<>>) \o BuildResults(meta, Tail(top))

\* search without its two early returns
SearchUnguarded(meta, toks, bm, query, top_k, order) ==
    LET query_tokens == preprocess_text(query)
        base == [query |-> query, top_k |-> top_k, raised |-> FALSE,
                 results |-> <<>>, called |-> TRUE]
    IN  IF GetScoresRaises(bm, query_tokens) THEN [base EXCEPT !.raised = TRUE]
        ELSE LET top == get_top_n(bm, query_tokens, order, top_k)
             IN  IF \E r \in DOMAIN top :
                        top[r].idx > Len(meta) \/ top[r].idx > Len(toks)
                 THEN [base EXCEPT !.raised = TRUE]
                 ELSE [base EXCEPT !.results = BuildResults(meta, top)]

\* SemanticSearch.search: its outcome on the index (docs, meta, toks, bm)
\* when argsort returns order
search(meta, toks, bm, query, top_k, order) ==
    LET query_tokens == preprocess_text(query)
        base == [query |-> query, top_k |-> top_k, raised |-> FALSE,
                 results |-> <<>>, called |-> TRUE]
    IN  IF toks = <<>> THEN base
        ELSE IF query_tokens = <<>> THEN base
        ELSE IF GetScoresRaises(bm, query_tokens) THEN [base EXCEPT !.raised = TRUE]
        ELSE LET top == get_top_n(bm, query_tokens, order, top_k)
             IN  IF \E r \in DOMAIN top :
                        top[r].idx > Len(meta) \/ top[r].idx > Len(toks)
                 THEN [base EXCEPT !.raised = TRUE]
                 ELSE [base EXCEPT !.results = BuildResults(meta, top)]

\* result = self.metadata[idx]: the dict the loop writes to is the stored one
SameAs(stored) == [dict |-> stored, shared |-> TRUE]

\* line 256, result = self.metadata[idx].copy(): a new dict with the keys
\* and values of the stored one
CopyOf(stored) == [dict |-> stored, shared |-> FALSE]

\* [:100] of the tokens joined into matched_text
MatchedTokens == 100

\* lines 254-261: the loop of search with the dicts it builds, and the
\* metadata list after it
RECURSIVE AnnotateResults(_, _, _, _)
AnnotateResults(meta, toks, top, query_tokens) ==
    IF top = <<>> THEN [results |-> <<>>, metadata |-> meta]
    ELSE IF Head(top).score > 0
    THEN LET idx == Head(top).idx
             result == CopyOf(meta[idx])
             annotated == [similarity_score |-> Head(top).score,
                           bm25_score |-> Head(top).score,
                           matched_text |-> Prefix(toks[idx], MatchedTokens),
                           query_tokens |-> query_tokens] @@ result.dict
             rest == AnnotateResults(IF result.shared
                                     THEN [meta EXCEPT ![idx] = annotated] ELSE meta,
                                     toks, Tail(top), query_tokens)
         IN  [results |-> <<annotated>> \o rest.results, metadata |-> rest.metadata]
    ELSE AnnotateResults(meta, toks, Tail(top), query_tokens)

\* the dicts search returns and self.metadata after the call
SearchDicts(meta, toks, bm, query, top_k, order) ==
    IF \/ toks = <<>>
       \/ preprocess_text(query) = <<>>
       \/ search(meta, toks, bm, query, top_k, order).raised
    THEN [results |-> <<>>, metadata |-> meta]
    ELSE AnnotateResults(meta, toks, get_top_n(bm, preprocess_text(query), order, top_k),
                         preprocess_text(query))

\* line 281: f"product {product_name} review opinion experience quality"
ProductQuery(product_name) ==
    <<"product", product_name, "review", "opinion", "experience", "quality">>

\* sentiment.lower() of the sentiments in use
SentimentKey(sentiment) ==
    CASE sentiment = "Negative" -> "negative"
      [] sentiment = "POSITIVE" -> "positive"
      [] OTHER -> sentiment

\* lines 296-302: sentiment_queries.get(sentiment.lower(), sentiment)
SentimentQuery(sentiment) ==
    CASE SentimentKey(sentiment) = "positive" ->
            <<"excellent", "good", "great", "perfect", "amazing", "wonderful",
              "fantastic", "outstanding", "recommended", "love", "best", "quality",
              "satisfied", "happy", "pleased">>
      [] SentimentKey(sentiment) = "negative" ->
            <<"bad", "terrible", "horrible", "awful", "disappointing", "defective",
              "broken", "poor", "worst", "hate", "disappointed", "unsatisfied",
              "problem", "issue">>
      [] SentimentKey(sentiment) = "neutral" ->
            <<"average", "normal", "acceptable", "regular", "okay", "standard",
              "typical", "moderate", "fair", "decent">>
      [] OTHER -> <<sentiment>>

\* the orders argsort may return for a query on the model bm
Orders(bm, query) ==
    IF GetScoresRaises(bm, preprocess_text(query)) THEN {<<>>}
    ELSE ArgsortOutcomes(get_scores(bm, preprocess_text(query)), 1..bm.N)

\* np.arange(lo, hi, step): lo, lo + step, ... below hi
Arange(lo, hi, step) ==
    [i \in 1..(IF hi > lo THEN (hi - lo + step - 1) \div step ELSE 0) |-> lo + (i - 1) * step]

K1Step == 2         \* 0.2, in tenths
BStep == 10         \* 0.1, in hundredths

\* the (k1, b) candidates in the order of the two loops
Grid(k1_range, b_range) ==
    LET k1_values == Arange(k1_range[1], k1_range[2], K1Step)
        b_values == Arange(b_range[1], b_range[2], BStep)
    IN  Flatten([i \in DOMAIN k1_values |->
                    [j \in DOMAIN b_values |-> [k1 |-> k1_values[i], b |-> b_values[j]]]])

\* a precision is kept in sixtieths, which every number of retrieved
\* documents in use divides
PrecisionUnit == 60

\* lines 367-373: the precisions one query can get on the model under
\* test, one for each order argsort may return; the relevant documents are
\* positions from 1
Precisions(test_bm25, query, relevant_docs) ==
    LET query_tokens == preprocess_text(query)
        scores == get_scores(test_bm25, query_tokens)
    IN  { LET top_results == TopN(scores, order, Len(relevant_docs))
              retrieved_docs == {top_results[r].idx : r \in DOMAIN top_results}
          IN  IF top_results # <<>>
              THEN (Cardinality(retrieved_docs \cap Range(relevant_docs)) * PrecisionUnit)
                       \div Len(top_results)
              ELSE 0 :
          order \in ArgsortOutcomes(scores, 1..test_bm25.N) }

\* the loop over zip(queries, relevance_judgments) from pair k on: the
\* values total_score can end with
RECURSIVE TotalScores(_, _, _, _)
TotalScores(test_bm25, queries, relevance_judgments, k) ==
    IF k > Min(Len(queries), Len(relevance_judgments)) THEN {0}
    ELSE { precision + rest :
               precision \in Precisions(test_bm25, queries[k], relevance_judgments[k]),
               rest \in TotalScores(test_bm25, queries, relevance_judgments, k + 1) }

\* get_scores raises for one of the queries on the model under test
TuneRaises(toks, queries, relevance_judgments, grid) ==
    \E c \in DOMAIN grid, k \in 1..Min(Len(queries), Len(relevance_judgments)) :
        GetScoresRaises(fit(NewBM25(grid[c].k1, grid[c].b), toks), preprocess_text(queries[k]))

\* the values avg_score can take for candidate c: total_score /
\* len(queries), kept as total_score, the divisor being the same for every
\* candidate
AvgScores(toks, queries, relevance_judgments, grid, c) ==
    IF queries # <<>>
    THEN TotalScores(fit(NewBM25(grid[c].k1, grid[c].b), toks),
                     queries, relevance_judgments, 1)
    ELSE {0}

\* the comparison of the loop without best_score: the last candidate that
\* scores above 0 is taken
RECURSIVE GridSearchLastHit(_, _, _, _, _, _)
GridSearchLastHit(bm, toks, queries, relevance_judgments, grid, c) ==
    IF c = 0 THEN {[best_score |-> 0, k1 |-> bm.k1, b |-> bm.b, evaluated |-> <<>>]}
    ELSE { IF avg_score > 0
           THEN [best_score |-> avg_score, k1 |-> grid[c].k1, b |-> grid[c].b,
                 evaluated |-> Append(best.evaluated, avg_score)]
           ELSE [best EXCEPT !.evaluated = Append(best.evaluated, avg_score)] :
               best \in GridSearchLastHit(bm, toks, queries, relevance_judgments,
                                          grid, c - 1),
               avg_score \in AvgScores(toks, queries, relevance_judgments, grid, c) }

\* the grid search up to candidate c: the values (best_score, best_params)
\* can have, with the avg_score every candidate so far was given
RECURSIVE GridSearch(_, _, _, _, _, _)
GridSearch(bm, toks, queries, relevance_judgments, grid, c) ==
    IF c = 0 THEN {[best_score |-> 0, k1 |-> bm.k1, b |-> bm.b, evaluated |-> <<>>]}
    ELSE { IF avg_score > best.best_score
           THEN [best_score |-> avg_score, k1 |-> grid[c].k1, b |-> grid[c].b,
                 evaluated |-> Append(best.evaluated, avg_score)]
           ELSE [best EXCEPT !.evaluated = Append(best.evaluated, avg_score)] :
               best \in GridSearch(bm, toks, queries, relevance_judgments, grid, c - 1),
               avg_score \in AvgScores(toks, queries, relevance_judgments, grid, c) }

\* SemanticSearch.tune_parameters: the ways the call can end, with the
\* model it leaves in self.bm25 and the parameters it returns
tune_parameters(bm, toks, queries, relevance_judgments, k1_range, b_range) ==
    IF TuneRaises(toks, queries, relevance_judgments, Grid(k1_range, b_range))
    THEN {[raised |-> TRUE, bm25 |-> bm, best_params |-> <<>>,
           best_score |-> 0, evaluated |-> <<>>]}
    ELSE { [raised |-> FALSE,
            bm25 |-> fit(NewBM25(best.k1, best.b), toks),
            best_params |-> <<[k1 |-> best.k1, b |-> best.b]>>,
            best_score |-> best.best_score,
            evaluated |-> best.evaluated] :
               best \in GridSearch(bm, toks, queries, relevance_judgments,
                                   Grid(k1_range, b_range),
                                   Len(Grid(k1_range, b_range))) }

----------------------------------------------------------------------------
(* NERExtractor (ner_extractor.py) *)

None == "None"

memory_threshold == 80
CheckEvery == 50
SpacyMaxLength == 1000
NltkMaxLength == 2000
MinConfidence == 5      \* the 0.5 floor of _post_process_entities, in tenths

\* What the machine offers when the tagger is built: the outcome of
\* "import nltk", of finding its data ("downloaded": nltk.download fetched
\* it; "missing": nltk.download returned False, quietly; "error": another
\* exception than LookupError), of "import spacy", of spacy.load and of
\* the download of the model. None stands for a step that its tier does
\* not reach on this machine.
Environments ==
    { env \in [nltk : {"ok", "ImportError", "error"},
               nltk_data : {"found", "downloaded", "missing", "error", None},
               spacy : {"ok", "ImportError", "error"},
               load : {"ok", "OSError", "ImportError", "error", None},
               download : {"ok", "error", None}] :
          /\ env.nltk_data = None <=> env.nltk # "ok"
          /\ env.load = None <=> env.spacy # "ok"
          /\ env.download = None <=> env.load # "OSError" }

Loaded(type, model) == [raised |-> FALSE, model_type |-> type, primary_model |-> model]
InitRaises == [raised |-> TRUE, model_type |-> None, primary_model |-> None]

\* lines 138-140: the regex fallback
RegexTier == Loaded("regex", None)

\* lines 110-136: spaCy with the small model; "except OSError" tries a
\* download under a bare except, "except ImportError" covers the block
SpacyTier(env) ==
    IF env.spacy = "ImportError" THEN RegexTier
    ELSE IF env.spacy = "error" THEN InitRaises
    ELSE IF env.load = "ok" THEN Loaded("spacy", "nlp")
    ELSE IF env.load = "OSError"
         THEN (IF env.download = "ok" THEN Loaded("spacy", "nlp") ELSE RegexTier)
    ELSE IF env.load = "ImportError" THEN RegexTier
    ELSE InitRaises

\* the tiers that load on a machine
NltkLoads(env) == env.nltk = "ok" /\ env.nltk_data \in {"found", "downloaded"}

SpacyLoads(env) ==
    env.spacy = "ok" /\ (env.load = "ok" \/ (env.load = "OSError" /\ env.download = "ok"))

\* NERExtractor._initialize_lightweight_model: NLTK first (lines 86-107,
\* only ImportError is caught), then spaCy, then regex
_initialize_lightweight_model(env) ==
    IF env.nltk = "ImportError" THEN SpacyTier(env)
    ELSE IF env.nltk = "error" THEN InitRaises
    ELSE IF env.nltk_data = "error" THEN InitRaises
    ELSE Loaded("nltk", None)

\* What one call on the tagger meets: the memory percentage psutil
\* reports (or psutil raising), whether the reset of spaCy's string store
\* raises, and the chunk on which the backend raises (0: on none).
MaxChunks == 3
Calls ==
    [mem : {50, 90}, psutil_raises : BOOLEAN, reset_raises : BOOLEAN,
     fault : 0..MaxChunks]

\* _get_memory_usage: psutil under a bare except that returns 0
_get_memory_usage(call) ==
    [raised |-> FALSE, value |-> IF call.psutil_raises THEN 0 ELSE call.mem]

\* the handler "except: pass": what the guarded statement raises is dropped
ExceptPass(raises) == FALSE

\* line 77 outside its try
CleanupUnguarded(type, model, call) ==
    type = "spacy" /\ model # None /\ call.reset_raises

\* _cleanup_memory raises: gc.collect(), then for spaCy the reset of the
\* string store under "except: pass"
_cleanup_memory(type, model, call) ==
    type = "spacy" /\ model # None /\ ExceptPass(call.reset_raises)

\* A text given to the tagger: whether the string is empty, the length of
\* its normalized form, the mentions a statistical backend recognises in
\* it (raw label, offsets in the normalized text), the matches of the
\* patterns of extract_with_regex on the normalized text, the matches of
\* the patterns of extract_products_from_text, and for each brand name
\* the words the patterns of extract_brand_products capture after it.
Mention(text, label, start, end) ==
    [text |-> text, label |-> label, start |-> start, end |-> end]

Text(name, empty, len, stat, rx) ==
    [name |-> name, empty |-> empty, len |-> len, stat |-> stat, rx |-> rx,
     text_products |-> <<>>, after_brand |-> <<>>]

t_empty == Text("", TRUE, 0, <<>>, <<>>)

t_blank == Text("  ", FALSE, 0, <<>>, <<>>)

\* "John Smith: iPhone, Sony; john smith"
t_short ==
    Text("short", FALSE, 36,
         <<Mention("John Smith", "PERSON", 0, 10), Mention("iPhone", "PRODUCT", 12, 18),
           Mention("Sony", "ORG", 20, 24), Mention("john smith", "PERSON", 26, 36)>>,
         <<Mention("John Smith", "Person", 0, 10), Mention("john smith", "Person", 26, 36)>>)

\* 2500 characters: "Sony" at 5, "Boston" at 998, "$20" at 1500, "Sony"
\* at 2100, hyphens elsewhere
t_long ==
    Text("long", FALSE, 2500,
         <<Mention("Sony", "ORG", 5, 9), Mention("Boston", "GPE", 998, 1004),
           Mention("$20", "MONEY", 1500, 1503), Mention("Sony", "ORG", 2100, 2104)>>,
         <<Mention("Boston", "Location", 998, 1004), Mention("$20", "Money", 1500, 1503)>>)

SampleTexts == {t_empty, t_blank, t_short, t_long}

\* entity_mapping.get(label, label)
entity_mapping(label) ==
    CASE label \in {"PERSON", "PER"} -> "Person"
      [] label \in {"ORG", "ORGANIZATION"} -> "Organization"
      [] label \in {"GPE", "LOC", "LOCATION", "FAC", "FACILITY", "GSP"} -> "Location"
      [] label = "DATE" -> "Date"
      [] label = "TIME" -> "Time"
      [] label = "MONEY" -> "Money"
      [] label = "QUANTITY" -> "Quantity"
      [] label \in {"PRODUCT", "WORK_OF_ART"} -> "Product"
      [] label = "MISC" -> "Miscellaneous"
      [] label = "EVENT" -> "Event"
      [] label = "LANGUAGE" -> "Language"
      [] label = "LAW" -> "Law"
      [] label = "NORP" -> "Group"
      [] label \in {"ORDINAL", "CARDINAL"} -> "Number"
      [] label = "PERCENT" -> "Percentage"
      [] OTHER -> label

\* the summed lengths of the chunks before chunk k left out
ChunkOffsetZero(len, max, k) == 0

\* the chunks text[i:i+max_length] of a text of length len
NumChunks(len, max) == IF len > max THEN (len + max - 1) \div max ELSE 1

ChunkLen(len, max, k) == IF len > max THEN Min(max, len - (k - 1) * max) ELSE len

\* the offset of chunk k: the summed lengths of the chunks before it
RECURSIVE ChunkOffset(_, _, _)
ChunkOffset(len, max, k) ==
    IF k = 1 THEN 0 ELSE ChunkOffset(len, max, k - 1) + ChunkLen(len, max, k - 1)

RECURSIVE SelectSeq2(_, _, _)
SelectSeq2(s, lo, hi) ==
    IF s = <<>> THEN <<>>
    ELSE (IF lo <= Head(s).start /\ Head(s).end <= hi THEN <<Head(s)>> ELSE <<>>)
             \o SelectSeq2(Tail(s), lo, hi)

\* the entities the backend reports for chunk k, with the offsets it
\* gives them: chunk-local offsets plus the offset of the chunk
ChunkEntities(doc, max, k, conf, method) ==
    LET lo == (k - 1) * max
        found == SelectSeq2(doc.stat, lo, lo + ChunkLen(doc.len, max, k))
        offset == ChunkOffset(doc.len, max, k)
    IN  [m \in DOMAIN found |->
            [text |-> found[m].text, label |-> entity_mapping(found[m].label),
             start |-> (found[m].start - lo) + offset,
             end |-> (found[m].end - lo) + offset,
             confidence |-> conf, method |-> method]]

RECURSIVE SpacyChunks(_, _, _)
SpacyChunks(doc, k, fault) ==
    IF k > NumChunks(doc.len, SpacyMaxLength) \/ k = fault THEN <<>>
    ELSE ChunkEntities(doc, SpacyMaxLength, k, 9, "spacy") \o SpacyChunks(doc, k + 1, fault)

\* extract_with_spacy: the entities of the chunks before the one that
\* raises; the handler runs _cleanup_memory
extract_with_spacy(doc, type, model, call) ==
    [raised |-> /\ call.fault \in 1..NumChunks(doc.len, SpacyMaxLength)
                /\ _cleanup_memory(type, model, call),
     faulted |-> call.fault \in 1..NumChunks(doc.len, SpacyMaxLength),
     entities |-> SpacyChunks(doc, 1, call.fault)]

RECURSIVE NltkChunks(_, _, _)
NltkChunks(doc, k, fault) ==
    IF k > NumChunks(doc.len, NltkMaxLength) THEN <<>>
    ELSE (IF k = fault THEN <<>> ELSE ChunkEntities(doc, NltkMaxLength, k, 7, "nltk"))
             \o NltkChunks(doc, k + 1, fault)

\* extract_with_nltk: _process_nltk_chunk returns [] for a chunk that
\* raises and the loop goes on
extract_with_nltk(doc, call) ==
    [raised |-> FALSE,
     faulted |-> call.fault \in 1..NumChunks(doc.len, NltkMaxLength),
     entities |-> NltkChunks(doc, 1, call.fault)]

\* extract_with_regex
extract_with_regex(doc) ==
    [raised |-> FALSE,
     faulted |-> FALSE,
     entities |-> [m \in DOMAIN doc.rx |->
                      [text |-> doc.rx[m].text, label |-> doc.rx[m].label,
                       start |-> doc.rx[m].start, end |-> doc.rx[m].end,
                       confidence |-> 6, method |-> "regex"]]]

\* entity['text'].lower().strip()
Lower(t) ==
    CASE t = "John Smith" -> "john smith"
      [] t = "Sony" -> "sony"
      [] t = "Boston" -> "boston"
      [] t = "iPhone" -> "iphone"
      [] t = "SONY" -> "sony"
      [] t = "TV" -> "tv"
      [] t = "Battery" -> "battery"
      [] t = "The Defective" -> "the defective"
      [] t = "defective Battery" -> "defective battery"
      [] t = "iPhone in" -> "iphone in"
      [] t = "el iPhone" -> "el iphone"
      [] t = "It arrived" -> "it arrived"
      [] t = "She complained" -> "she complained"
      [] t = " Sony " -> " sony "
      [] OTHER -> t

\* str.strip() on the texts used
Strip(t) ==
    CASE t = " Sony " -> "Sony"
      [] t = " sony " -> "sony"
      [] OTHER -> t

\* line 335: the key of the deduplication
EntityKey(e) == <<Strip(Lower(e.text)), e.label>>

RECURSIVE PostProcess(_, _)
PostProcess(entities, seen) ==
    IF entities = <<>> THEN <<>>
    ELSE LET e == Head(entities)
             key == EntityKey(e)
         IN  IF key \notin seen /\ e.confidence > MinConfidence
             THEN <<[text |-> Strip(e.text), label |-> e.label, start |-> e.start,
                     end |-> e.end, confidence |-> e.confidence]>>
                      \o PostProcess(Tail(entities), seen \cup {key})
             ELSE PostProcess(Tail(entities), seen)

\* _post_process_entities
_post_process_entities(entities) == PostProcess(entities, {})

\* lines 297-301 raise: every CheckEvery-th text the memory is sampled
\* and, above the threshold, cleaned up
MemoryCheck(type, model, count, call) ==
    IF count % CheckEvery = 0
    THEN LET usage == _get_memory_usage(call)
         IN  \/ usage.raised
             \/ (usage.value > memory_threshold /\ _cleanup_memory(type, model, call))
    ELSE FALSE

\* lines 309-319: the backend of the active tier; what it raises is
\* caught and the regex tier answers
Dispatch(type, model, doc, call) ==
    LET r == IF type = "spacy" THEN extract_with_spacy(doc, type, model, call)
             ELSE IF type = "nltk" THEN extract_with_nltk(doc, call)
             ELSE extract_with_regex(doc)
    IN  IF r.raised THEN [extract_with_regex(doc) EXCEPT !.faulted = TRUE] ELSE r

\* the backend a tagger of the given type switches to when its backend
\* raised while it handled a document
ModelTypeSwitched(type, faulted) == IF faulted THEN "regex" ELSE type

\* self.model_type after extract_entities: the method reads it for the
\* dispatch and for the log line of the fallback and never assigns it
ModelTypeAfter(type, faulted) == type

\* extract_entities: the outcome and the new processed_count
extract_entities(type, model, count, doc, call) ==
    IF doc.empty
    THEN [raised |-> FALSE, entities |-> <<>>, processed_count |-> count,
          faulted |-> FALSE, model_type |-> type, sampled |-> 0, cleaned |-> 0]
    ELSE LET sampled == IF (count + 1) % CheckEvery = 0 THEN 1 ELSE 0
             cleaned == IF /\ sampled = 1
                           /\ _get_memory_usage(call).value > memory_threshold
                        THEN 1 ELSE 0
         IN  IF MemoryCheck(type, model, count + 1, call)
             THEN [raised |-> TRUE, entities |-> <<>>, processed_count |-> count + 1,
                   faulted |-> FALSE, model_type |-> type, sampled |-> sampled, cleaned |-> cleaned]
             ELSE LET r == Dispatch(type, model, doc, call)
                  IN  [raised |-> r.raised,
                       entities |-> _post_process_entities(r.entities),
                       processed_count |-> count + 1,
                       faulted |-> r.faulted,
                       model_type |-> ModelTypeAfter(type, r.faulted),
                       sampled |-> sampled, cleaned |-> cleaned]

\* grouped[label].append(text) unless it is there already
AddToGroup(grouped, label, text) ==
    IF \E i \in DOMAIN grouped : grouped[i][1] = label
    THEN [i \in DOMAIN grouped |->
             IF grouped[i][1] = label /\ text \notin Range(grouped[i][2])
             THEN <<label, Append(grouped[i][2], text)>>
             ELSE grouped[i]]
    ELSE Append(grouped, <<label, <<text>>>>)

RECURSIVE GroupByType(_, _)
GroupByType(entities, grouped) ==
    IF entities = <<>> THEN grouped
    ELSE GroupByType(Tail(entities), AddToGroup(grouped, Head(entities).label, Head(entities).text))

\* extract_entities_by_type, on the entities extract_entities returned:
\* the types in order of first occurrence, each with its distinct texts
extract_entities_by_type(entities) == GroupByType(entities, <<>>)

\* entities_by_type.get(label, [])
OfType(grouped, label) ==
    IF \E i \in DOMAIN grouped : grouped[i][1] = label
    THEN grouped[CHOOSE i \in DOMAIN grouped : grouped[i][1] = label][2]
    ELSE <<>>

\* _is_likely_brand: at most three words, a capital first, more than two
\* characters
_is_likely_brand(text) == text \in {"John Smith", "Sony", "Boston"}

\* _is_likely_product: a product indicator ("phone" in "iPhone"), a
\* model-number pattern, or a capitalised text holding a digit
_is_likely_product(text) == text \in {"iPhone", "TV"}

RECURSIVE SelectBrands(_)
SelectBrands(s) ==
    IF s = <<>> THEN <<>>
    ELSE (IF _is_likely_brand(Head(s)) THEN <<Head(s)>> ELSE <<>>) \o SelectBrands(Tail(s))

RECURSIVE SelectProducts(_)
SelectProducts(s) ==
    IF s = <<>> THEN <<>>
    ELSE (IF _is_likely_product(Head(s)) THEN <<Head(s)>> ELSE <<>>) \o SelectProducts(Tail(s))

\* the first of the texts that agree in lower case
RECURSIVE UniqueLower(_, _)
UniqueLower(s, seen) ==
    IF s = <<>> THEN <<>>
    ELSE IF Lower(Head(s)) \in seen THEN UniqueLower(Tail(s), seen)
    ELSE <<Head(s)>> \o UniqueLower(Tail(s), seen \cup {Lower(Head(s))})

\* extract_brands, on the grouping of its own extract_entities call
extract_brands(grouped) ==
    UniqueLower(OfType(grouped, "Organization")
                    \o SelectBrands(OfType(grouped, "Miscellaneous")), {})

\* extract_product_mentions (the second definition, lines 542-578)
extract_product_mentions(grouped, doc) ==
    UniqueLower(OfType(grouped, "Product")
                    \o SelectProducts(OfType(grouped, "Miscellaneous"))
                    \o doc.text_products
                    \o SelectProducts(OfType(grouped, "Organization")), {})

\* extract_brand_products, on the brands of its own extract_brands call
RECURSIVE BrandProducts(_, _)
BrandProducts(after, brands) ==
    IF after = <<>> THEN <<>>
    ELSE (IF Head(after)[1] \in Range(brands) /\ SelectProducts(Head(after)[2]) # <<>>
          THEN <<<<Head(after)[1], SelectProducts(Head(after)[2])>>>> ELSE <<>>)
             \o BrandProducts(Tail(after), brands)

extract_brand_products(brands, doc) == BrandProducts(doc.after_brand, brands)

\* the result of analyze_review for an empty text and after an exception
EmptyAnalysis ==
    [entities |-> <<>>, products |-> <<>>, brands |-> <<>>, brand_products |-> <<>>,
     all_entities |-> <<>>, extraction_stats |-> <<>>]

\* the first of the five extract_entities calls of analyze_review that
\* raises, 0 when none does
FirstRaising(type, model, count, doc, call) ==
    IF \E i \in 1..5 : extract_entities(type, model, count + i - 1, doc, call).raised
    THEN CHOOSE i \in 1..5 :
             /\ extract_entities(type, model, count + i - 1, doc, call).raised
             /\ \A j \in 1..(i - 1) : ~extract_entities(type, model, count + j - 1, doc, call).raised
    ELSE 0

\* analyze_review: extract_entities runs for the grouping, for the brands,
\* for the products, for the brands of the brand products and for
\* all_entities, on the same text under the same conditions; an exception
\* in any of them gives the empty analysis
analyze_review(type, model, count, doc, call) ==
    IF doc.empty
    THEN [analysis |-> EmptyAnalysis, processed_count |-> count,
          faulted |-> FALSE, model_type |-> type, samples |-> 0, cleanups |-> 0]
    ELSE LET failed == FirstRaising(type, model, count, doc, call)
             calls == IF failed # 0 THEN failed ELSE 5
             last == extract_entities(type, model, count + calls - 1, doc, call)
             samples == SumSeq([i \in 1..calls |->
                           extract_entities(type, model, count + i - 1, doc, call).sampled])
             cleanups == SumSeq([i \in 1..calls |->
                            extract_entities(type, model, count + i - 1, doc, call).cleaned])
             by_type == extract_entities_by_type(extract_entities(type, model, count, doc, call).entities)
             brands == extract_brands(extract_entities_by_type(
                           extract_entities(type, model, count + 1, doc, call).entities))
             products == extract_product_mentions(extract_entities_by_type(
                             extract_entities(type, model, count + 2, doc, call).entities), doc)
             brand_products == extract_brand_products(extract_brands(extract_entities_by_type(
                                   extract_entities(type, model, count + 3, doc, call).entities)), doc)
             all_entities == extract_entities(type, model, count + 4, doc, call).entities
         IN  IF failed # 0
             THEN [analysis |-> EmptyAnalysis, processed_count |-> count + failed,
                   faulted |-> last.faulted,
                   model_type |-> last.model_type,
                   samples |-> samples, cleanups |-> cleanups]
             ELSE [analysis |->
                      [entities |-> by_type, products |-> products, brands |-> brands,
                       brand_products |-> brand_products, all_entities |-> all_entities,
                       extraction_stats |->
                           <<[total_entities |-> Len(all_entities),
                              unique_brands |-> Cardinality(Range(brands)),
                              unique_products |-> Cardinality(Range(products)),
                              model_used |-> type,
                              processed_count |-> count + 5]>>],
                   processed_count |-> count + 5,
                   faulted |-> last.faulted,
                   model_type |-> last.model_type,
                   samples |-> samples, cleanups |-> cleanups]

----------------------------------------------------------------------------
(* The tagger used by one caller *)

MaxProcessed == 50

NoEnvironment ==
    [nltk |-> None, nltk_data |-> None, spacy |-> None, load |-> None, download |-> None]

NoCall ==
    [op |-> "none", text |-> None, raised |-> FALSE, faulted |-> FALSE,
     entities |-> <<>>, analysis |-> <<>>]

\* what the tagger did since its construction or its last reset: the
\* non-empty reviews analyze_review handled, the samples of the memory
\* usage at line 298 and the cleanups of line 299
NoMonitor == [reviews |-> 0, samples |-> 0, cleanups |-> 0]

\* the monitor after one more review went through analyze_review
Monitored(mon, r) ==
    [reviews |-> mon.reviews + 1, samples |-> mon.samples + r.samples,
     cleanups |-> mon.cleanups + r.cleanups]

NerInit ==
    /\ model_type = None
    /\ primary_model = None
    /\ processed_count = 0
    /\ monitor = NoMonitor
    /\ nerStatus = [state |-> "new", env |-> NoEnvironment]
    /\ nerOut = NoCall

\* NERExtractor.__init__ on some machine
Construct ==
    /\ nerStatus.state = "new"
    /\ \E env \in Environments :
          LET r == _initialize_lightweight_model(env)
          IN  /\ nerStatus' = [state |-> IF r.raised THEN "failed" ELSE "built", env |-> env]
              /\ model_type' = r.model_type
              /\ primary_model' = r.primary_model
    /\ nerOut' = [NoCall EXCEPT !.op = "__init__"]
    /\ UNCHANGED <<processed_count, monitor, searchVars, csvVars, probe, batch, requests>>

\* a call of extract_entities on the constructed tagger
ExtractEntities ==
    /\ nerStatus.state = "built"
    /\ nerOut = NoCall
    /\ processed_count < MaxProcessed
    /\ \E doc \in SampleTexts, call \in Calls :
          \E r \in {extract_entities(model_type, primary_model, processed_count, doc, call)} :
              /\ processed_count' = r.processed_count
              /\ model_type' = r.model_type
              /\ monitor' = [monitor EXCEPT !.samples = @ + r.sampled,
                                            !.cleanups = @ + r.cleaned]
              /\ nerOut' = [op |-> "extract_entities", text |-> doc.name, raised |-> r.raised,
                            faulted |-> r.faulted, entities |-> r.entities, analysis |-> <<>>]
    /\ UNCHANGED <<primary_model, nerStatus, searchVars, csvVars, probe, batch, requests>>

\* a call of analyze_review on the constructed tagger
AnalyzeReview ==
    /\ nerStatus.state = "built"
    /\ nerOut = NoCall
    /\ processed_count + 5 <= MaxProcessed
    /\ \E doc \in SampleTexts, call \in Calls :
          \E r \in {analyze_review(model_type, primary_model, processed_count, doc, call)} :
              /\ processed_count' = r.processed_count
              /\ model_type' = r.model_type
              /\ monitor' = IF doc.empty THEN monitor ELSE Monitored(monitor, r)
              /\ nerOut' = [op |-> "analyze_review", text |-> doc.name, raised |-> FALSE,
                            faulted |-> r.faulted, entities |-> <<>>, analysis |-> <<r.analysis>>]
    /\ UNCHANGED <<primary_model, nerStatus, searchVars, csvVars, probe, batch, requests>>

\* reset_memory: the counter restarts and the cleanup runs
reset_memory(type, model, call) ==
    [raised |-> _cleanup_memory(type, model, call), processed_count |-> 0,
     model_type |-> type]

\* a call of reset_memory on the constructed tagger
ResetMemory ==
    /\ nerStatus.state = "built"
    /\ nerOut = NoCall
    /\ processed_count > 0
    /\ \E call \in Calls :
          LET r == reset_memory(model_type, primary_model, call)
          IN  /\ processed_count' = r.processed_count
              /\ model_type' = r.model_type
              /\ monitor' = NoMonitor
              /\ nerOut' = [op |-> "reset_memory", text |-> None, raised |-> r.raised,
                            faulted |-> FALSE, entities |-> <<>>, analysis |-> <<>>]
    /\ UNCHANGED <<primary_model, nerStatus, searchVars, csvVars, probe, batch, requests>>

\* the caller takes the result
ReturnNer ==
    /\ nerOut # NoCall
    /\ nerOut' = NoCall
    /\ nerStatus' = [nerStatus EXCEPT !.env = NoEnvironment]
    /\ UNCHANGED <<model_type, primary_model, processed_count, monitor, searchVars, csvVars, probe, batch, requests>>

----------------------------------------------------------------------------
(* OpinionExtractor (main_processor.py) and the extractors it drives *)

\* A review text of a dataset: its words as the index reads them, what
\* RegexExtractor.clean_text makes of it, the text as the tagger meets it,
\* the trigger and lexicon phrases its lower-cased form contains, and the
\* subject-verb-object relations the parser finds in it.
RowText(name, words, clean, doc, phrases, svo) ==
    [name |-> name, words |-> words, clean |-> clean, doc |-> doc,
     phrases |-> phrases, svo |-> svo]

\* "The Defective TV"
row_tv ==
    RowText("The Defective TV", <<"The", "Defective", "TV">>, "The Defective TV",
            Text("The Defective TV", FALSE, 16, <<Mention("TV", "PRODUCT", 14, 16)>>,
                 <<Mention("The Defective", "Person", 0, 13)>>),
            {"defective", "tv", "the defective"}, <<>>)

\* "defective Battery! Great,"
row_bat ==
    RowText("defective Battery! Great,", <<"defective", "Battery!", "Great,">>,
            "defective Battery! Great,",
            Text("defective Battery! Great,", FALSE, 25,
                 <<Mention("Battery", "PRODUCT", 10, 17)>>,
                 <<Mention("defective Battery", "Person", 0, 17)>>),
            {"defective", "great", "battery", "defective battery"}, <<>>)

\* "it is ok @x"
row_ok ==
    RowText("it is ok @x", <<"it", "is", "ok", "@x">>, "it is ok",
            Text("it is ok @x", FALSE, 11, <<>>, <<Mention("it is", "Person", 0, 5)>>),
            {"it is"}, <<<<"it", "be", "ok">>>>)

SampleRowTexts == {row_tv, row_bat, row_ok}

\* "John Smith bought the iPhone in Boston"
row_john ==
    RowText("John Smith bought the iPhone in Boston",
            <<"John", "Smith", "bought", "the", "iPhone", "in", "Boston">>,
            "John Smith bought the iPhone in Boston",
            Text("John Smith bought the iPhone in Boston", FALSE, 38,
                 <<Mention("John Smith", "PERSON", 0, 10), Mention("iPhone", "PRODUCT", 22, 28),
                   Mention("Boston", "GPE", 32, 38)>>,
                 <<Mention("John Smith", "Person", 0, 10), Mention("bought the", "Person", 11, 21),
                   Mention("iPhone in", "Person", 22, 31), Mention("Boston", "Location", 32, 38)>>),
            {"bought", "john smith", "bought the", "iphone in", "iphone", "boston"},
            <<<<"John Smith", "buy", "the iPhone">>>>)

\* "It arrived, good but normal and average"
row_avg ==
    RowText("It arrived, good but normal and average",
            <<"It", "arrived,", "good", "but", "normal", "and", "average">>,
            "It arrived, good but normal and average",
            Text("It arrived, good but normal and average", FALSE, 39, <<>>,
                 <<Mention("It arrived", "Person", 0, 10), Mention("good but", "Person", 12, 20),
                   Mention("normal and", "Person", 21, 31)>>),
            {"arrived", "good", "normal", "average", "it arrived", "good but", "normal and"},
            <<>>)

\* "She complained that it arrived defective and broke"
row_multi ==
    RowText("She complained that it arrived defective and broke",
            <<"She", "complained", "that", "it", "arrived", "defective", "and", "broke">>,
            "She complained that it arrived defective and broke",
            Text("She complained that it arrived defective and broke", FALSE, 50, <<>>,
                 <<Mention("She complained", "Person", 0, 14), Mention("that it", "Person", 15, 22),
                   Mention("arrived defective", "Person", 23, 40),
                   Mention("and broke", "Person", 41, 50)>>),
            {"complain", "complained", "arrived", "defective", "broke", "she complained",
             "that it", "arrived defective", "and broke"},
            <<>>)

\* "John Smith compró el iPhone"
row_compro ==
    RowText("John Smith compró el iPhone",
            <<"John", "Smith", "compró", "el", "iPhone">>,
            "John Smith compró el iPhone",
            Text("John Smith compró el iPhone", FALSE, 27,
                 <<Mention("John Smith", "PERSON", 0, 10), Mention("iPhone", "PRODUCT", 21, 27)>>,
                 <<Mention("John Smith", "Person", 0, 10), Mention("el iPhone", "Person", 18, 27)>>),
            {"compró", "john smith", "el iphone", "iphone"},
            <<<<"John Smith", "comprar", "el iPhone">>>>)

\* the texts of the reviews given to process_single_review on its own
SampleReviewTexts == SampleRowTexts \cup {row_john, row_avg, row_multi, row_compro}

\* the stage whose backend raises on a row's text
Faults == {"none", "pattern", "entity", "relation"}

\* the conditions the tagger meets on a row: the memory is low, and the
\* statistical backend raises on the text when the row's fault is "entity"
RowCall(fault) ==
    [mem |-> 50, psutil_raises |-> FALSE, reset_raises |-> FALSE,
     fault |-> IF fault = "entity" THEN 1 ELSE 0]

\* RegexExtractor.extract_all_patterns: the extractors find nothing in the
\* sample texts; an exception gives the empty result marked unsuccessful
extract_all_patterns(text, fault) ==
    [prices |-> <<>>, dates |-> <<>>, models |-> <<>>, ratings |-> <<>>,
     processing_successful |-> fault # "pattern"]

\* OpinionExtractor._normalize_brand_name
_normalize_brand_name(brand) ==
    CASE Lower(brand) = "sony" -> "Sony"
      [] brand = "Boston" -> "Boston"
      [] brand = "John Smith" -> "John smith"
      [] brand = "iPhone" -> "Iphone"
      [] brand = "The Defective" -> "The defective"
      [] OTHER -> brand

\* OpinionExtractor._clean_and_deduplicate_brands
RECURSIVE CleanBrands(_, _)
CleanBrands(brands, seen) ==
    IF brands = <<>> THEN <<>>
    ELSE LET normalized == _normalize_brand_name(Head(brands))
         IN  IF normalized \in seen THEN CleanBrands(Tail(brands), seen)
             ELSE <<normalized>> \o CleanBrands(Tail(brands), seen \cup {normalized})

_clean_and_deduplicate_brands(brands_list) == CleanBrands(brands_list, {})

\* RelationshipExtractor.extract_subject_verb_object: self.nlp(text) is
\* outside any try
extract_subject_verb_object(text, fault) ==
    [raised |-> fault = "relation", relations |-> text.svo]

\* entities.get(key, []) on the dictionary analyze_review returned
Get(analysis, key) == IF key \in DOMAIN analysis THEN analysis[key] ELSE <<>>

\* RelationshipExtractor.relation_patterns['compra']
purchase_verbs == <<"compré", "compró", "adquirí", "pedí", "ordené">>

\* the relations of one person with the products
RECURSIVE PurchasesOf(_, _, _)
PurchasesOf(text, person, products) ==
    IF products = <<>> THEN <<>>
    ELSE (IF Lower(person) \in text.phrases /\ Lower(Head(products)) \in text.phrases
          THEN <<[subject |-> person, predicate |-> "compró", object |-> Head(products),
                  confidence |-> 8]>>
          ELSE <<>>)
             \o PurchasesOf(text, person, Tail(products))

\* RelationshipExtractor.extract_purchase_relations: for every purchase
\* verb in the lowercased text, the persons under the key 'Persona' with
\* the products under the keys 'Producto' and 'products'
extract_purchase_relations(text, analysis) ==
    LET persons == Get(analysis, "Persona")
        products == Get(analysis, "Producto") \o Get(analysis, "products")
    IN  Flatten([v \in DOMAIN purchase_verbs |->
                    IF purchase_verbs[v] \in text.phrases
                    THEN Flatten([i \in DOMAIN persons |->
                                     PurchasesOf(text, persons[i], products)])
                    ELSE <<>>])

\* RelationshipExtractor.extract_all_relations
extract_all_relations(text, analysis, fault) ==
    LET svo == extract_subject_verb_object(text, fault)
    IN  [raised |-> svo.raised,
         relations |->
             [i \in DOMAIN svo.relations |->
                 [subject |-> svo.relations[i][1], predicate |-> svo.relations[i][2],
                  object |-> svo.relations[i][3], confidence |-> 5, type |-> "svo"]]
                 \o extract_purchase_relations(text, analysis)]

\* EventExtractor.event_triggers, in the order of the dictionary
event_triggers ==
    << <<"purchase", <<"bought", "purchased", "ordered", "acquired", "got">>>>,
       <<"return", <<"returned", "sent back", "exchanged", "gave back">>>>,
       <<"complaint", <<"complain", "complained", "claim", "protest", "upset">>>>,
       <<"recommendation", <<"recommend", "suggest", "advise">>>>,
       <<"failure", <<"failed", "broke", "stopped working", "does not work", "defective">>>>,
       <<"function", <<"works well", "works perfectly", "operates correctly">>>>,
       <<"delivery", <<"arrived", "received", "delivered", "came">>>>,
       <<"rating", <<"rate", "score", "value", "give stars">>>> >>

\* EventExtractor.sentiment_patterns
sentiment_positive == {"excellent", "good", "great", "perfect", "amazing", "recommended"}

sentiment_negative == {"bad", "terrible", "horrible", "defective", "broken", "disappointing"}

sentiment_neutral == {"normal", "average", "acceptable", "regular"}

\* EventExtractor._extract_sentiment
_extract_sentiment(text) ==
    LET positive_count == Cardinality(sentiment_positive \cap text.phrases)
        negative_count == Cardinality(sentiment_negative \cap text.phrases)
    IN  IF positive_count > negative_count THEN "positive"
        ELSE IF negative_count > positive_count THEN "negative"
        ELSE "neutral"

\* persons[0], products[0], ... or None
FirstOrNone(s) == IF s = <<>> THEN None ELSE s[1]

\* EventExtractor._create_event: 'Person', 'Product', 'products', 'Date'
\* and 'Location' are read as keys of the dictionary it is given
_create_event(text, trigger, event_type, analysis) ==
    [type |-> event_type, trigger |-> trigger,
     actor |-> FirstOrNone(Get(analysis, "Person")),
     object |-> FirstOrNone(Get(analysis, "Product") \o Get(analysis, "products")),
     time |-> FirstOrNone(Get(analysis, "Date")),
     location |-> FirstOrNone(Get(analysis, "Location")),
     sentiment |-> _extract_sentiment(text),
     confidence |-> 7]

\* one event for a type, from the first of its triggers in the text
RECURSIVE EventsOfFirstTrigger(_, _, _, _)
EventsOfFirstTrigger(text, event_type, triggers, analysis) ==
    IF triggers = <<>> THEN <<>>
    ELSE IF Head(triggers) \in text.phrases
    THEN <<_create_event(text, Head(triggers), event_type, analysis)>>
    ELSE EventsOfFirstTrigger(text, event_type, Tail(triggers), analysis)

RECURSIVE EventsOfTriggers(_, _, _, _)
EventsOfTriggers(text, event_type, triggers, analysis) ==
    IF triggers = <<>> THEN <<>>
    ELSE (IF Head(triggers) \in text.phrases
          THEN <<_create_event(text, Head(triggers), event_type, analysis)>> ELSE <<>>)
             \o EventsOfTriggers(text, event_type, Tail(triggers), analysis)

\* EventExtractor.extract_events
extract_events(text, analysis) ==
    Flatten([t \in DOMAIN event_triggers |->
                EventsOfTriggers(text, event_triggers[t][1], event_triggers[t][2], analysis)])

\* lines 133-156 of process_single_review: the stages after the tagger
\* and the compiled review
CompileReview(text, fault, review_id, ner) ==
    LET relations == extract_all_relations(text, ner.analysis, fault)
    IN  [raised |-> relations.raised,
         processed_count |-> ner.processed_count,
         model_type |-> ner.model_type,
         samples |-> ner.samples,
         cleanups |-> ner.cleanups,
         review |->
             [id |-> review_id,
              original_text |-> text.words,
              clean_text |-> text.clean,
              regex_patterns |-> extract_all_patterns(text, fault),
              entities |-> ner.analysis.entities,
              products |-> ner.analysis.products,
              brands |-> _clean_and_deduplicate_brands(ner.analysis.brands),
              raw_brands |-> ner.analysis.brands,
              relations |-> relations.relations,
              events |-> extract_events(text, ner.analysis)]]

\* OpinionExtractor.process_single_review: the review, or the exception
\* of the relation stage, and the tagger's new processed_count; the
\* analysis of the tagger is computed once
process_single_review(type, model, count, text, fault, review_id) ==
    CHOOSE out \in { CompileReview(text, fault, review_id, ner) :
                         ner \in {analyze_review(type, model, count, text.doc, RowCall(fault))} } :
        TRUE

\* KnowledgeRepresentation._create_uri: spaces and hyphens become
\* underscores, under the namespace of the kind
_create_uri(name, kind) ==
    <<kind, CASE name = "John Smith" -> "John_Smith"
              [] name = "The Defective" -> "The_Defective"
              [] OTHER -> name>>

\* event['type'].capitalize()
Capitalize(t) ==
    CASE t = "purchase" -> "Purchase"
      [] t = "return" -> "Return"
      [] t = "complaint" -> "Complaint"
      [] t = "recommendation" -> "Recommendation"
      [] t = "failure" -> "Failure"
      [] t = "function" -> "Function"
      [] t = "delivery" -> "Delivery"
      [] t = "rating" -> "Rating"
      [] OTHER -> t

\* KnowledgeRepresentation.add_event_to_graph: the triples of one event,
\* whose subject is event_{review_id}_{type}
add_event_to_graph(event, review_id) ==
    LET event_uri == <<"event", <<"event", review_id, event.type>>>>
    IN  {<<event_uri, "rdf:type", <<"event", Capitalize(event.type)>>>>,
         <<event_uri, "hasSentiment", event.sentiment>>,
         <<event_uri, "hasTrigger", event.trigger>>}
            \cup (IF event.actor # None
                  THEN {<<event_uri, "hasActor", _create_uri(event.actor, "user")>>} ELSE {})
            \cup (IF event.object # None
                  THEN {<<event_uri, "hasObject", _create_uri(event.object, "product")>>} ELSE {})

\* KnowledgeRepresentation.create_product_sentiment_graph: the triples the
\* events of the reviews add to the graph
create_product_sentiment_graph(reviews_data) ==
    UNION { UNION { add_event_to_graph(reviews_data[r].events[e], reviews_data[r].id) :
                        e \in DOMAIN reviews_data[r].events } :
                r \in DOMAIN reviews_data }

\* A dataset file: whether pandas reads it, its columns, and for each row
\* the text of every text column and the stage that fails on it.
Row(text, fault) == [text |-> text, fault |-> fault]

MaxRows == 2

SampleRows == {Row(text, fault) : text \in SampleRowTexts, fault \in Faults}

Dataset(readable, columns, rows) ==
    [readable |-> readable, columns |-> columns, rows |-> rows]

SampleColumns == {<<"review_text", "rating">>, <<"text", "stars">>}

RowLists(n) == UNION {[1..k -> SampleRows] : k \in 0..n}

\* a row list costs the tagger five texts for every row
SampleDatasets(budget) ==
    {Dataset(readable, columns, rows) :
        readable \in BOOLEAN, columns \in SampleColumns,
        rows \in RowLists(Min(MaxRows, budget \div 5))}

TextColumns == {"review_text", "text"}

\* the test of the column left out
ColumnNeverMissing(columns, text_column) == FALSE

\* "if text_column not in df.columns"
ColumnMissing(columns, text_column) == text_column \notin Range(columns)

RECURSIVE ProcessRows(_, _, _, _, _, _, _)

\* lines 106-107: the review r of row idx is appended and the loop goes
\* on, or its exception ends the loop
AppendRow(type, model, rows, idx, done, mon, r) ==
    IF r.raised
    THEN [raised |-> TRUE, reviews |-> done, processed_count |-> r.processed_count,
          model_type |-> r.model_type, monitor |-> Monitored(mon, r)]
    ELSE ProcessRows(r.model_type, model, r.processed_count, rows, idx + 1,
                     Append(done, r.review), Monitored(mon, r))

\* the loop of process_csv from row idx on: it ends with the reviews of
\* all the rows, or with the exception of process_single_review
ProcessRows(type, model, count, rows, idx, done, mon) ==
    IF idx > Len(rows)
    THEN [raised |-> FALSE, reviews |-> done, processed_count |-> count,
          model_type |-> type, monitor |-> mon]
    ELSE CHOOSE out \in { AppendRow(type, model, rows, idx, done, mon, r) :
                              r \in {process_single_review(type, model, count, rows[idx].text,
                                                          rows[idx].fault, <<"review", idx - 1>>)} } :
             TRUE

\* what process_csv printed about the dataset
LoadError == <<"Error cargando CSV">>

ColumnNotFound(text_column, columns) ==
    <<"Columna", text_column, "no encontrada. Columnas disponibles:", columns>>

Completed == <<"Procesamiento completado!">>

\* the state and the outcome of a process_csv call that changes nothing
Rejected(state, message) ==
    [raised |-> FALSE, result |-> <<>>, message |-> message, processed |-> 0,
     processed_reviews |-> state.processed_reviews,
     graph |-> state.graph, index |-> state.index,
     indexed |-> state.indexed,
     processed_count |-> state.processed_count,
     model_type |-> state.model_type,
     monitor |-> state.monitor]

\* the graph made anew for every batch, as processed_reviews and the index are
StoreBatchFreshGraph(state, loop) ==
    IF loop.raised
    THEN [Rejected(state, <<>>) EXCEPT !.raised = TRUE,
                                       !.processed = Len(loop.reviews),
                                       !.processed_count = loop.processed_count,
                                       !.model_type = loop.model_type,
                                       !.monitor = loop.monitor]
    ELSE [raised |-> FALSE, result |-> loop.reviews,
          message |-> Completed,
          processed |-> Len(loop.reviews),
          processed_reviews |-> loop.reviews,
          graph |-> create_product_sentiment_graph(loop.reviews),
          index |-> index_documents(state.index.bm25, loop.reviews),
          indexed |-> loop.reviews,
          processed_count |-> loop.processed_count,
          model_type |-> loop.model_type,
          monitor |-> loop.monitor]

\* lines 109-120 of process_csv after the loop, which the exception of a
\* row does not reach
StoreBatch(state, loop) ==
    IF loop.raised
    THEN [Rejected(state, <<>>) EXCEPT !.raised = TRUE,
                                       !.processed = Len(loop.reviews),
                                       !.processed_count = loop.processed_count,
                                       !.model_type = loop.model_type,
                                       !.monitor = loop.monitor]
    ELSE [raised |-> FALSE, result |-> loop.reviews,
          message |-> Completed,
          processed |-> Len(loop.reviews),
          processed_reviews |-> loop.reviews,
          graph |-> state.graph \cup create_product_sentiment_graph(loop.reviews),
          index |-> index_documents(state.index.bm25, loop.reviews),
          indexed |-> loop.reviews,
          processed_count |-> loop.processed_count,
          model_type |-> loop.model_type,
          monitor |-> loop.monitor]

\* OpinionExtractor.process_csv: how the call ends, what it returns and
\* prints, and the state it leaves
process_csv(state, dataset, text_column) ==
    IF ~dataset.readable
    THEN Rejected(state, LoadError)
    ELSE IF ColumnMissing(dataset.columns, text_column)
    THEN Rejected(state, ColumnNotFound(text_column, dataset.columns))
    ELSE CHOOSE out \in { StoreBatch(state, loop) :
                              loop \in {ProcessRows(state.model_type, state.primary_model,
                                                    state.processed_count, dataset.rows, 1, <<>>,
                                                    state.monitor)} } :
             TRUE

----------------------------------------------------------------------------
(* The processor used by one caller *)

CsvMaxProcessed == 15

NoCsv ==
    [called |-> FALSE, dataset |-> Dataset(FALSE, <<>>, <<>>), text_column |-> None,
     raised |-> FALSE, result |-> <<>>, message |-> <<>>, processed |-> 0]

\* no function call is under examination
NoProbe == [op |-> "none", input |-> <<>>, output |-> <<>>]

\* the request threads of the server (run_app.py, threaded=True)
MaxThreads == 2

Threads == 1..MaxThreads

\* no process_csv call is in progress
NoRequest == [pc |-> "idle", reviews |-> <<>>, raised |-> FALSE, result |-> <<>>]

NoRequests == [t \in Threads |-> NoRequest]

\* no batch_extract call is in progress
NoBatch == [pc |-> "idle", texts |-> <<>>, max_workers |-> 0, futures |-> <<>>,
            results |-> <<>>, raised |-> FALSE]

CsvInit ==
    /\ processed_reviews = <<>>
    /\ graph = {}
    /\ csvOut = NoCsv

\* a call of process_csv once the previous one has ended
ProcessCsv ==
    /\ nerStatus.state = "built"
    /\ csvOut = NoCsv
    /\ \E dataset \in SampleDatasets(CsvMaxProcessed - processed_count),
          text_column \in TextColumns :
          \E r \in {process_csv([processed_reviews |-> processed_reviews,
                                  graph |-> graph,
                                  index |-> [documents |-> documents, metadata |-> metadata,
                                             tokenized_docs |-> tokenized_docs, bm25 |-> bm25],
                                  indexed |-> indexed,
                                  model_type |-> model_type,
                                  primary_model |-> primary_model,
                                  processed_count |-> processed_count,
                                  monitor |-> monitor],
                                 dataset, text_column)} :
              /\ processed_reviews' = r.processed_reviews
              /\ graph' = r.graph
              /\ documents' = r.index.documents
              /\ metadata' = r.index.metadata
              /\ tokenized_docs' = r.index.tokenized_docs
              /\ bm25' = r.index.bm25
              /\ indexed' = r.indexed
              /\ processed_count' = r.processed_count
              /\ model_type' = r.model_type
              /\ monitor' = r.monitor
              /\ csvOut' = [called |-> TRUE, dataset |-> dataset,
                            text_column |-> text_column, raised |-> r.raised,
                            result |-> r.result, message |-> r.message,
                            processed |-> r.processed]
    /\ UNCHANGED <<lastSearch, rebuild, primary_model, nerStatus, nerOut, probe, batch, requests>>

\* the caller takes the result, or the exception
ReturnCsv ==
    /\ csvOut # NoCsv
    /\ csvOut' = NoCsv
    /\ UNCHANGED <<searchVars, nerVars, processed_reviews, graph, probe, batch, requests>>

----------------------------------------------------------------------------
(* The index used by one caller at a time *)

Idle == [pc |-> "idle"]

Init ==
    /\ documents = <<>>
    /\ metadata = <<>>
    /\ tokenized_docs = <<>>
    /\ bm25 = NewBM25(K1Default, BDefault)
    /\ lastSearch = NoSearch
    /\ rebuild = Idle
    /\ indexed = <<>>
    /\ NerInit
    /\ CsvInit
    /\ probe = NoProbe
    /\ batch = NoBatch
    /\ requests = NoRequests

\* a caller runs index_documents once the previous call has returned
IndexDocuments ==
    /\ lastSearch = NoSearch
    /\ probe.op = "none"
    /\ \E reviews \in ReviewLists(MaxDocs) :
        LET new == index_documents(bm25, reviews)
        IN  /\ documents' = new.documents
            /\ metadata' = new.metadata
            /\ tokenized_docs' = new.tokenized_docs
            /\ bm25' = new.bm25
            /\ indexed' = reviews
            /\ UNCHANGED <<lastSearch, rebuild, nerVars, csvVars, probe, batch, requests>>

Search ==
    /\ lastSearch = NoSearch
    /\ probe.op = "none"
    /\ \E query \in SampleQueries, top_k \in 0..MaxTopK :
        \E order \in Orders(bm25, query) :
            /\ lastSearch' = search(metadata, tokenized_docs, bm25, query, top_k, order)
            /\ metadata' = SearchDicts(metadata, tokenized_docs, bm25, query, top_k,
                                       order).metadata
            /\ UNCHANGED <<documents, tokenized_docs, bm25, rebuild, indexed, nerVars,
                           csvVars, probe, batch, requests>>

\* the caller takes the result of the search; the next call can start
ReturnSearch ==
    /\ lastSearch # NoSearch
    /\ lastSearch' = NoSearch
    /\ UNCHANGED <<indexVars, rebuild, indexed, nerVars, csvVars, probe, batch, requests>>

Next == IndexDocuments \/ Search \/ ReturnSearch

Spec == Init /\ [][Next]_vars

----------------------------------------------------------------------------
(* Properties of the index used by one caller at a time *)

\* the scores BM25 gives the documents for the query of the last search
LastScores == get_scores(bm25, preprocess_text(lastSearch.query))

Positive == {i \in 1..bm25.N : LastScores[i] > 0}

Returned == {lastSearch.results[r].idx : r \in DOMAIN lastSearch.results}

\* C1: after every index_documents(reviews) call the documents, the
\* metadata, the tokenized documents and the BM25 model's N, doc_len and
\* doc_freqs all have exactly len(reviews) entries.
C1_CountsEqualLastIndexed ==
    rebuild = Idle =>
        /\ Len(documents) = Len(indexed)
        /\ Len(metadata) = Len(indexed)
        /\ Len(tokenized_docs) = Len(indexed)
        /\ bm25.N = Len(indexed)
        /\ Len(bm25.doc_len) = Len(indexed)
        /\ Len(bm25.doc_freqs) = Len(indexed)

\* C3: on a built index a search returns exactly the min(top_k, P)
\* highest-scoring documents, P being the number of documents with a score
\* > 0; every returned score is > 0, the results are in descending score
\* order, and the call does not raise.
C3_TopKPositiveDescending ==
    (lastSearch.called /\ tokenized_docs # <<>> /\ rebuild = Idle) =>
        LET res == lastSearch.results
        IN  /\ ~lastSearch.raised
            /\ Len(res) = Min(lastSearch.top_k, Cardinality(Positive))
            /\ Cardinality(Returned) = Len(res)
            /\ \A r \in DOMAIN res :
                   /\ res[r].idx \in 1..bm25.N
                   /\ res[r].score = LastScores[res[r].idx]
                   /\ res[r].score > 0
            /\ \A r \in DOMAIN res : r > 1 => res[r - 1].score >= res[r].score
            /\ \A r \in DOMAIN res : \A j \in (1..bm25.N) \ Returned :
                   LastScores[j] <= res[r].score

\* a search that top_k cut and a search that found fewer than top_k
C3_Witness ==
    /\ lastSearch.called /\ tokenized_docs # <<>>
    /\ Len(lastSearch.results) = 2
    /\ lastSearch.top_k = 3
    /\ \E r \in DOMAIN lastSearch.results :
           r > 1 /\ lastSearch.results[r - 1].score > lastSearch.results[r].score

\* C4: documents with equal positive scores are returned in insertion
\* order, and when top_k cuts between tied documents the one indexed
\* earlier is kept.
C4_TiesInInsertionOrder ==
    (lastSearch.called /\ tokenized_docs # <<>> /\ rebuild = Idle) =>
        LET res == lastSearch.results
        IN  /\ \A r, q \in DOMAIN res :
                   (r < q /\ res[r].score = res[q].score) => res[r].idx < res[q].idx
            /\ \A r \in DOMAIN res : \A j \in Positive \ Returned :
                   LastScores[j] = res[r].score => res[r].idx < j

\* C6: with three documents indexed of which only the second holds the
\* token "defective", search("defective") returns exactly one result, the
\* second document, with a score > 0.
C6_OnlyDefectiveDocument ==
    (/\ lastSearch.called /\ rebuild = Idle
     /\ Len(tokenized_docs) = 3
     /\ {i \in 1..3 : "defective" \in Range(tokenized_docs[i])} = {2}
     /\ preprocess_text(lastSearch.query) = <<"defective">>
     /\ lastSearch.top_k >= 1) =>
        /\ ~lastSearch.raised
        /\ Len(lastSearch.results) = 1
        /\ lastSearch.results[1].idx = 2
        /\ lastSearch.results[1].id = metadata[2].id
        /\ lastSearch.results[1].score > 0

C6_Witness ==
    /\ lastSearch.called /\ rebuild = Idle
    /\ Len(tokenized_docs) = 3
    /\ {i \in 1..3 : "defective" \in Range(tokenized_docs[i])} = {2}
    /\ preprocess_text(lastSearch.query) = <<"defective">>
    /\ lastSearch.top_k >= 1
    /\ Len(lastSearch.results) = 1

----------------------------------------------------------------------------
(* The scenario of a query against five matching documents *)

FiveDocs == 5

\* an index built by one index_documents call on five reviews
InitFive ==
    \E reviews \in [1..FiveDocs -> SampleReviews] :
        LET new == index_documents(NewBM25(K1Default, BDefault), reviews)
        IN  /\ documents = new.documents
            /\ metadata = new.metadata
            /\ tokenized_docs = new.tokenized_docs
            /\ bm25 = new.bm25
            /\ lastSearch = NoSearch
            /\ rebuild = Idle
            /\ indexed = reviews
            /\ NerInit
            /\ CsvInit
    /\ probe = NoProbe
    /\ batch = NoBatch
    /\ requests = NoRequests

NextFive == Search \/ ReturnSearch

SpecFive == InitFive /\ [][NextFive]_vars

\* the documents of the index that hold the token
Holding(token) == {i \in DOMAIN tokenized_docs : token \in Range(tokenized_docs[i])}

\* C5: when five indexed documents contain the query's token,
\* search(query, top_k=2) returns exactly 2 results, in descending score
\* order.
C5_TwoOfFiveMatching ==
    (/\ lastSearch.called
     /\ lastSearch.top_k = 2
     /\ Len(preprocess_text(lastSearch.query)) = 1
     /\ Cardinality(Holding(preprocess_text(lastSearch.query)[1])) = 5) =>
        /\ ~lastSearch.raised
        /\ Len(lastSearch.results) = 2
        /\ lastSearch.results[1].score >= lastSearch.results[2].score

----------------------------------------------------------------------------
(* A search running while index_documents rebuilds the index: the server   *)
(* handles requests on threads (run_app.py, threaded=True) and neither     *)
(* method takes a lock, so a search can run between any two statements of  *)
(* index_documents and of BM25.fit.                                        *)

ConcMaxDocs == 2

At(pc) == [rebuild EXCEPT !.pc = pc]

\* line 189: self.documents = []
StartRebuild ==
    /\ rebuild = Idle
    /\ \E reviews \in ReviewLists(ConcMaxDocs) :
        /\ rebuild' = [pc |-> "l190", reviews |-> reviews, i |-> 1]
        /\ indexed' = reviews
    /\ documents' = <<>>
    /\ UNCHANGED <<metadata, tokenized_docs, bm25, lastSearch, nerVars, csvVars, probe, batch, requests>>

\* lines 190-191: self.metadata = [], self.tokenized_docs = []
ResetLists ==
    \/ /\ rebuild.pc = "l190"
       /\ metadata' = <<>>
       /\ rebuild' = At("l191")
       /\ UNCHANGED <<documents, tokenized_docs, bm25, lastSearch, indexed, nerVars, csvVars, probe, batch, requests>>
    \/ /\ rebuild.pc = "l191"
       /\ tokenized_docs' = <<>>
       /\ rebuild' = At(IF rebuild.reviews = <<>> THEN "l218" ELSE "l213")
       /\ UNCHANGED <<documents, metadata, bm25, lastSearch, indexed, nerVars, csvVars, probe, batch, requests>>

\* lines 213-215: the appends of one iteration of the loop over the reviews
AppendReview ==
    \/ /\ rebuild.pc = "l213"
       /\ documents' = AppendDocument(documents, rebuild.reviews[rebuild.i])
       /\ rebuild' = At("l214")
       /\ UNCHANGED <<metadata, tokenized_docs, bm25, lastSearch, indexed, nerVars, csvVars, probe, batch, requests>>
    \/ /\ rebuild.pc = "l214"
       /\ tokenized_docs' = AppendTokens(tokenized_docs, rebuild.reviews[rebuild.i])
       /\ rebuild' = At("l215")
       /\ UNCHANGED <<documents, metadata, bm25, lastSearch, indexed, nerVars, csvVars, probe, batch, requests>>
    \/ /\ rebuild.pc = "l215"
       /\ metadata' = AppendMetadata(metadata, rebuild.reviews[rebuild.i])
       /\ rebuild' = [rebuild EXCEPT
              !.pc = IF rebuild.i = Len(rebuild.reviews) THEN "l218" ELSE "l213",
              !.i = rebuild.i + 1]
       /\ UNCHANGED <<documents, tokenized_docs, bm25, lastSearch, indexed, nerVars, csvVars, probe, batch, requests>>

\* line 218: if self.tokenized_docs: self.bm25.fit(...)
FitOrReturn ==
    /\ rebuild.pc = "l218"
    /\ rebuild' = IF tokenized_docs # <<>> THEN At("f52") ELSE Idle
    /\ UNCHANGED <<indexVars, lastSearch, indexed, nerVars, csvVars, probe, batch, requests>>

FitStep(pc, next, bm) ==
    /\ rebuild.pc = pc
    /\ bm25' = bm
    /\ rebuild' = At(next)
    /\ UNCHANGED <<documents, metadata, tokenized_docs, lastSearch, indexed, nerVars, csvVars, probe, batch, requests>>

\* the statements of BM25.fit, lines 52-76
FitStatement ==
    \/ FitStep("f52", "f53", FitCorpus(bm25, tokenized_docs))
    \/ FitStep("f53", "f56", FitN(bm25))
    \/ FitStep("f56", "f57", FitDocLen(bm25))
    \/ FitStep("f57", "f67", FitAvgdl(bm25))
    \/ FitStep("f67", "f68", FitIdfClear(bm25))
    \/ FitStep("f68", "f73", FitIdf(bm25))
    \/ /\ rebuild.pc = "f73"
       /\ bm25' = FitDocFreqsClear(bm25)
       /\ rebuild' = [rebuild EXCEPT !.pc = "f76", !.i = 1]
       /\ UNCHANGED <<documents, metadata, tokenized_docs, lastSearch, indexed, nerVars, csvVars, probe, batch, requests>>
    \/ /\ rebuild.pc = "f76"
       /\ bm25' = FitDocFreqsAppend(bm25, rebuild.i)
       /\ rebuild' = IF rebuild.i = Len(bm25.corpus) THEN Idle
                     ELSE [rebuild EXCEPT !.i = rebuild.i + 1]
       /\ UNCHANGED <<documents, metadata, tokenized_docs, lastSearch, indexed, nerVars, csvVars, probe, batch, requests>>

NextConc ==
    StartRebuild \/ ResetLists \/ AppendReview \/ FitOrReturn \/ FitStatement
        \/ Search \/ ReturnSearch

SpecConc == Init /\ [][NextConc]_vars

\* index_documents run statement by statement ends in the index that the
\* whole call gives
RebuildEndsInIndex ==
    rebuild = Idle =>
        /\ documents = [i \in DOMAIN indexed |-> TextContent(indexed[i])]
        /\ metadata = indexed
        /\ tokenized_docs = [i \in DOMAIN indexed |-> preprocess_text(TextContent(indexed[i]))]
        /\ indexed # <<>> => bm25 = fit(bm25, tokenized_docs)

\* C2: a search that runs while index_documents rebuilds the index sees a
\* complete index: every document position BM25 gives it refers to an
\* existing metadata entry and the search does not raise.
C2_SearchSerializedWithRebuild ==
    lastSearch.called =>
        /\ ~lastSearch.raised
        /\ \A r \in DOMAIN lastSearch.results :
               lastSearch.results[r].idx \in DOMAIN metadata

----------------------------------------------------------------------------
(* Construction and use of the tagger *)

NextNer == Construct \/ ExtractEntities \/ AnalyzeReview \/ ResetMemory \/ ReturnNer

SpecNer == Init /\ [][NextNer]_vars

\* C9: on a tagger whose construction succeeded, extract_entities does not
\* raise and returns a list of entities, whatever the text and whatever
\* the backend, the memory probe or the cache reset raise while the text
\* is handled.
C9_ExtractEntitiesNeverRaises ==
    (nerStatus.state = "built" /\ nerOut.op = "extract_entities")
        => /\ ~nerOut.raised
           /\ nerOut.entities \in Seq([text : STRING, label : STRING, start : Nat,
                                       end : Nat, confidence : Nat])

\* the spaCy tier is active, the call is the 50th, where the memory is
\* sampled, and it returns the one entity of the first chunk of the long
\* text: the backend raised on the second chunk
C9_Witness ==
    /\ nerStatus.state = "built"
    /\ model_type = "spacy"
    /\ nerOut.op = "extract_entities"
    /\ processed_count = CheckEvery
    /\ ~nerOut.raised
    /\ Len(nerOut.entities) = 1
    /\ nerOut.entities[1].text = "Sony"

\* the first tier, in the order NLTK, spaCy, regex, that loads on the
\* machine
FirstThatLoads(env) ==
    IF NltkLoads(env) THEN "nltk" ELSE IF SpacyLoads(env) THEN "spacy" ELSE "regex"

\* C10: construction never fails and activates the first tier that loads,
\* whatever the exception a tier's load raises.
C10_FirstTierThatLoads ==
    nerOut.op = "__init__"
        => /\ nerStatus.state = "built"
           /\ model_type = FirstThatLoads(nerStatus.env)

\* C11: once the tagger is constructed no call changes model_type:
\* extract_entities, analyze_review, the cleanups they run and reset_memory
\* leave it as it is, also when the active backend raised while it handled
\* the document.
C11_ModelTypeNeverChanges ==
    [][nerStatus.state = "built" => model_type' = model_type]_vars

\* extract_entities returned on the NLTK tier after the backend raised on
\* a chunk of the text, and the tier is still NLTK
C11_Witness ==
    /\ nerStatus.state = "built"
    /\ nerOut.op = "extract_entities"
    /\ nerOut.faulted
    /\ model_type = "nltk"

\* text[start:end] of the normalized text, where the characters of the
\* text are recorded; "?" elsewhere
Slice(doc, start, end) ==
    LET known == Range(doc.stat) \cup Range(doc.rx)
    IN  IF \E m \in known : m.start = start /\ m.end = end
        THEN (CHOOSE m \in known : m.start = start /\ m.end = end).text
        ELSE "?"

\* the text given to the last call
LastText == CHOOSE doc \in SampleTexts : doc.name = nerOut.text

\* C14: every entity extract_entities returns has 0 <= start <= end <=
\* len(text), and the characters of the normalized text from start to end
\* are the text recorded for the entity, also in a text longer than a
\* chunk, where the offsets are shifted by the lengths of the chunks before.
C14_OffsetsLocateEntityText ==
    nerOut.op = "extract_entities"
        => \A i \in DOMAIN nerOut.entities :
               LET e == nerOut.entities[i]
               IN  /\ 0 <= e.start
                   /\ e.start <= e.end
                   /\ e.end <= LastText.len
                   /\ Slice(LastText, e.start, e.end) = e.text

\* the NLTK tier returned an entity found in the second chunk of the long
\* text, and the spaCy tier one found in its third chunk
C14_Witness ==
    /\ nerOut.op = "extract_entities"
    /\ nerOut.text = "long"
    /\ \/ /\ model_type = "nltk"
          /\ \E i \in DOMAIN nerOut.entities : nerOut.entities[i].start >= NltkMaxLength
       \/ /\ model_type = "spacy"
          /\ \E i \in DOMAIN nerOut.entities : nerOut.entities[i].start >= 2 * SpacyMaxLength

----------------------------------------------------------------------------
(* The tagger as the pipeline uses it: reviews go through analyze_review *)

NextMonitor == Construct \/ AnalyzeReview \/ ResetMemory \/ ReturnNer

SpecMonitor == Init /\ [][NextMonitor]_vars

\* C12: after k non-empty reviews went through analyze_review since the
\* construction or the last reset_memory, processed_count is k and the
\* memory usage was sampled floor(k / 50) times, and a cleanup ran only at
\* a sample.
C12_SampledEveryFiftyReviews ==
    nerStatus.state = "built"
        => /\ processed_count = monitor.reviews
           /\ monitor.samples = monitor.reviews \div CheckEvery
           /\ monitor.cleanups <= monitor.samples

----------------------------------------------------------------------------
(* The functions of the pipeline on their own *)

\* one machine for each tier of the tagger
CsvMachines ==
    { [nltk |-> "ok", nltk_data |-> "found", spacy |-> "ok", load |-> "ok", download |-> None],
      [nltk |-> "ImportError", nltk_data |-> None, spacy |-> "ok", load |-> "ok",
       download |-> None],
      [nltk |-> "ImportError", nltk_data |-> None, spacy |-> "ImportError", load |-> None,
       download |-> None] }

\* the caller takes the result of the function
ReturnProbe ==
    /\ probe.op # "none"
    /\ probe' = NoProbe
    /\ UNCHANGED <<searchVars, nerVars, csvVars, batch, requests>>

\* the entities a backend can hand to the post-processing, and more: the
\* method takes any confidence
MaxEntities == 3
SampleEntities ==
    [text : {"Sony", "SONY", " Sony "}, label : {"Organization", "Product"},
     start : {0}, end : {4}, confidence : {4, 5, 6}, method : {"regex"}]

\* a call of _post_process_entities
PostProcessEntities ==
    /\ probe.op = "none"
    /\ \E n \in 0..MaxEntities :
          \E entities \in [1..n -> SampleEntities] :
              probe' = [op |-> "_post_process_entities", input |-> entities,
                        output |-> _post_process_entities(entities)]
    /\ UNCHANGED <<searchVars, nerVars, csvVars, batch, requests>>

\* a call of process_single_review on a processor whose tagger came up
\* on one of the machines
ProcessSingleReview ==
    /\ probe.op = "none"
    /\ \E env \in CsvMachines, text \in SampleReviewTexts, fault \in Faults :
          \E tagger \in {_initialize_lightweight_model(env)} :
              \E r \in {process_single_review(tagger.model_type, tagger.primary_model, 0,
                                               text, fault, <<"review", 0>>)} :
                  probe' = [op |-> "process_single_review",
                            input |-> [model_type |-> tagger.model_type, text |-> text,
                                       fault |-> fault],
                            output |-> r]
    /\ UNCHANGED <<searchVars, nerVars, csvVars, batch, requests>>

NextFunctions == PostProcessEntities \/ ProcessSingleReview \/ ReturnProbe

SpecFunctions == Init /\ [][NextFunctions]_vars

Reviewed == probe.op = "process_single_review" /\ ~probe.output.raised

\* C15: in the events of a review, actor is the first Person entity the
\* tagger found, object the first of the Product entities and the detected
\* products, time the first Date entity and location the first Location
\* entity, and a field is empty only when there is no such entity.
C15_EventFieldsFromEntities ==
    Reviewed
        => \A i \in DOMAIN probe.output.review.events :
               LET event == probe.output.review.events[i]
                   found == probe.output.review.entities
               IN  /\ event.actor = FirstOrNone(OfType(found, "Person"))
                   /\ event.object = FirstOrNone(OfType(found, "Product")
                                                     \o probe.output.review.products)
                   /\ event.time = FirstOrNone(OfType(found, "Date"))
                   /\ event.location = FirstOrNone(OfType(found, "Location"))

\* the relations of the pattern path in a review
PatternRelations(review) ==
    { i \in DOMAIN review.relations :
          /\ review.relations[i].confidence = 8
          /\ "type" \in DOMAIN review.relations[i]
          /\ review.relations[i].type = "pattern" }

\* C16: a review whose lowercased text holds t purchase triggers, for
\* which the tagger found p persons and q products whose texts occur in
\* the text, has t * p * q relations of confidence 0.8 and kind pattern.
C16_PatternRelationPerPair ==
    Reviewed
        => LET text == probe.input.text
               review == probe.output.review
               t == Cardinality(Range(purchase_verbs) \cap text.phrases)
               persons == { x \in Range(OfType(review.entities, "Person")) :
                                Lower(x) \in text.phrases }
               products == { x \in Range(OfType(review.entities, "Product"))
                                       \cup Range(review.products) :
                                 Lower(x) \in text.phrases }
           IN  Cardinality(PatternRelations(review))
                   = t * Cardinality(persons) * Cardinality(products)

\* the class with the most hits among the three lexicons, neutral when
\* the top counts tie
MajorityClass(text) ==
    LET positive == Cardinality(sentiment_positive \cap text.phrases)
        negative == Cardinality(sentiment_negative \cap text.phrases)
        neutral == Cardinality(sentiment_neutral \cap text.phrases)
    IN  IF positive > negative /\ positive > neutral THEN "positive"
        ELSE IF negative > positive /\ negative > neutral THEN "negative"
        ELSE "neutral"

\* C17: the sentiment of every event is the majority class among the
\* hits of the positive, the negative and the neutral lexicon in the whole
\* review text, neutral on a tie of the top counts, and one of the three.
C17_SentimentIsMajorityClass ==
    Reviewed
        => \A i \in DOMAIN probe.output.review.events :
               /\ probe.output.review.events[i].sentiment
                      \in {"positive", "negative", "neutral"}
               /\ probe.output.review.events[i].sentiment = MajorityClass(probe.input.text)

\* the (type, trigger) entries of the trigger table from entry t on, in
\* table order, whose trigger occurs in the text
RECURSIVE TableHits(_, _, _)
TableHits(text, t, k) ==
    IF t > Len(event_triggers) THEN <<>>
    ELSE IF k > Len(event_triggers[t][2]) THEN TableHits(text, t + 1, 1)
    ELSE (IF event_triggers[t][2][k] \in text.phrases
          THEN << <<event_triggers[t][1], event_triggers[t][2][k]>> >> ELSE <<>>)
             \o TableHits(text, t, k + 1)

\* C18: the events of a text are one per (type, trigger) entry of the
\* trigger table whose trigger occurs in the lowercased text, in table
\* order, triggers of one type not merged; each carries the type, the
\* trigger and the confidence 0.7.
C18_OneEventPerTriggerHit ==
    Reviewed
        => LET events == probe.output.review.events
               hits == TableHits(probe.input.text, 1, 1)
           IN  /\ Len(events) = Len(hits)
               /\ \A i \in DOMAIN events :
                      /\ <<events[i].type, events[i].trigger>> = hits[i]
                      /\ events[i].confidence = 7

\* the review with two complaint triggers, two failure triggers and one
\* delivery trigger has its five events
C18_Witness ==
    /\ Reviewed
    /\ probe.input.text = row_multi
    /\ Len(probe.output.review.events) = 5
    /\ probe.output.review.events[1].trigger = "complain"
    /\ probe.output.review.events[2].trigger = "complained"

----------------------------------------------------------------------------
(* The index searched and tuned by one caller at a time *)

MaxTuneQueries == 2

\* the test queries and the judgments given to tune_parameters, with the
\* ranges (0.5, 1.0) of k1 and (0.0, 0.2) of b
TuneCalls ==
    [queries : UNION {[1..n -> {<<"Defective">>}] : n \in 0..MaxTuneQueries},
     relevance_judgments : UNION {[1..n -> {<<1>>}] : n \in 0..MaxTuneQueries},
     k1_range : {<<5, 10>>}, b_range : {<<0, 20>>}]

\* a call of tune_parameters, with arguments among calls, once the
\* previous call has returned
Tune(calls) ==
    /\ lastSearch = NoSearch
    /\ probe.op = "none"
    /\ \E call \in calls :
          \E r \in tune_parameters(bm25, tokenized_docs, call.queries,
                                    call.relevance_judgments, call.k1_range, call.b_range) :
              /\ bm25' = r.bm25
              /\ probe' = [op |-> "tune_parameters",
                           input |-> [queries |-> call.queries,
                                      relevance_judgments |-> call.relevance_judgments,
                                      k1_range |-> call.k1_range,
                                      b_range |-> call.b_range,
                                      bm25 |-> bm25],
                           output |-> [raised |-> r.raised, best_params |-> r.best_params,
                                       best_score |-> r.best_score,
                                       evaluated |-> r.evaluated]]
    /\ UNCHANGED <<documents, metadata, tokenized_docs, lastSearch, rebuild, indexed,
                   nerVars, csvVars, batch, requests>>

TuneParameters == Tune(TuneCalls)

NextTune == IndexDocuments \/ TuneParameters \/ ReturnProbe \/ Search \/ ReturnSearch

SpecTune == Init /\ [][NextTune]_vars

\* C19: in every state index_documents and tune_parameters calls lead to,
\* a search on an index without documents, or with a query that has no
\* token after the preprocessing, returns the empty list and does not raise.
C19_EmptySearchReturnsEmptyList ==
    (lastSearch.called
        /\ (tokenized_docs = <<>> \/ preprocess_text(lastSearch.query) = <<>>))
        => /\ ~lastSearch.raised
           /\ lastSearch.results = <<>>

\* after a tuning that changed k1, a search with a token on the index
\* emptied by index_documents, where the model still holds the documents
\* of before
C19_Witness ==
    /\ lastSearch.called
    /\ bm25.k1 # K1Default
    /\ tokenized_docs = <<>>
    /\ bm25.N > 0
    /\ preprocess_text(lastSearch.query) # <<>>
    /\ ~lastSearch.raised
    /\ lastSearch.results = <<>>

\* C20: tune_parameters given queries and judgments of different lengths
\* ends with an error and leaves the BM25 model as it was.
C20_MismatchedListsRejected ==
    (probe.op = "tune_parameters"
        /\ Len(probe.input.queries) # Len(probe.input.relevance_judgments))
        => /\ probe.output.raised
           /\ bm25 = probe.input.bm25

\* the tokens of the last query that document i of the model holds
Matching(i) ==
    {t \in Range(preprocess_text(lastSearch.query)) : t \in Range(bm25.corpus[i])}

\* the token is in at least half of the documents of the model
InHalf(t) == 2 * DocFreq(bm25.corpus, t) >= bm25.N

\* C28: in the fitted model the idf of a token is above 0 exactly when the
\* token is in fewer than half of the N documents, 0 when it is in half of
\* them and below 0 when it is in more; and a document whose tokens in
\* common with the query are all in at least half of the documents has a
\* score of at most 0 and is not among the results of the search.
C28_IdfSignFollowsDocumentFrequency ==
    /\ \A t \in DOMAIN bm25.idf :
          LET df == DocFreq(bm25.corpus, t)
          IN  /\ bm25.idf[t] > 0 <=> 2 * df < bm25.N
              /\ bm25.idf[t] = 0 <=> 2 * df = bm25.N
              /\ bm25.idf[t] < 0 <=> 2 * df > bm25.N
    /\ (lastSearch.called /\ ~lastSearch.raised) =>
          \A i \in 1..bm25.N :
              (\A t \in Matching(i) : InHalf(t)) =>
                  /\ LastScores[i] <= 0
                  /\ \A r \in DOMAIN lastSearch.results : lastSearch.results[r].idx # i

\* a search of three documents that returns one of them and leaves out a
\* document whose only token of the query is in two of the three, with a
\* score below 0
C28_Witness ==
    /\ lastSearch.called
    /\ ~lastSearch.raised
    /\ bm25.N = 3
    /\ Len(lastSearch.results) = 1
    /\ \E i \in 1..bm25.N :
          /\ Matching(i) # {}
          /\ \A t \in Matching(i) : bm25.idf[t] < 0
          /\ LastScores[i] < 0
          /\ \A r \in DOMAIN lastSearch.results : lastSearch.results[r].idx # i

----------------------------------------------------------------------------
(* The tuning of an index of five documents, two of which hold the token   *)
(* of the test query: the shorter once, the longer twice, so that the      *)
(* first of the two depends on b.                                          *)

r_tv == Review("r_tv", <<"The", "Defective", "TV">>, <<>>, <<"TV">>, <<>>)
r_two == Review("r_two", <<"Defective", "defective Battery", "Great,">>,
                <<>>, <<"Battery">>, <<"screen">>)
r_scr == Review("r_scr", <<"wi-fi">>, <<>>, <<>>, <<"screen">>)
r_stop == Review("r_stop", <<"it", "is", "ok">>, <<>>, <<>>, <<>>)

\* the batches the index was built from
TunedBatches ==
    { <<r_tv, r_two, r_scr, r_stop, r_stop>>,
      <<r_two, r_tv, r_scr, r_stop, r_stop>>,
      <<r_tv, r_tv, r_two, r_scr, r_stop>> }

InitTuned ==
    \E reviews \in TunedBatches :
        LET new == index_documents(NewBM25(K1Default, BDefault), reviews)
        IN  /\ documents = new.documents
            /\ metadata = new.metadata
            /\ tokenized_docs = new.tokenized_docs
            /\ bm25 = new.bm25
            /\ lastSearch = NoSearch
            /\ rebuild = Idle
            /\ indexed = reviews
            /\ NerInit
            /\ CsvInit
    /\ probe = NoProbe
    /\ batch = NoBatch
    /\ requests = NoRequests

\* the test queries and the judgments, with the ranges (0.5, 0.7) of k1 and
\* (0.2, 0.4) of b, and with the empty range of k1
TunedCalls ==
    [queries : UNION {[1..n -> {<<"Defective">>}] : n \in 0..MaxTuneQueries},
     relevance_judgments : UNION {[1..n -> {<<1>>, <<1, 2>>}] : n \in 0..MaxTuneQueries},
     k1_range : {<<5, 7>>, <<7, 7>>}, b_range : {<<20, 40>>}]

TuneFive == Tune(TunedCalls)

NextTuned == TuneFive \/ ReturnProbe

SpecTuned == InitTuned /\ [][NextTuned]_vars

\* C21: when tune_parameters returns, the model of the index has the
\* returned k1 and b and is the fit of the tokenized documents of the
\* index; the score of the returned pair is at least the score every
\* candidate of the grid was given, and the pair is a candidate that was
\* given that score, or the pair of before when no candidate scored above 0;
\* the documents, the metadata and the tokenized documents are those
\* index_documents left.
C21_TunedToBestOfGrid ==
    (probe.op = "tune_parameters" /\ ~probe.output.raised) =>
        LET best == probe.output.best_params[1]
            grid == Grid(probe.input.k1_range, probe.input.b_range)
            evaluated == probe.output.evaluated
        IN  /\ bm25.k1 = best.k1
            /\ bm25.b = best.b
            /\ bm25 = fit(NewBM25(best.k1, best.b), tokenized_docs)
            /\ DOMAIN evaluated = DOMAIN grid
            /\ \A c \in DOMAIN grid : probe.output.best_score >= evaluated[c]
            /\ \/ \E c \in DOMAIN grid : /\ grid[c] = best
                                         /\ evaluated[c] = probe.output.best_score
               \/ /\ probe.output.best_score = 0
                  /\ best = [k1 |-> probe.input.bm25.k1, b |-> probe.input.bm25.b]
            /\ LET new == index_documents(NewBM25(K1Default, BDefault), indexed)
               IN  /\ documents = new.documents
                   /\ metadata = new.metadata
                   /\ tokenized_docs = new.tokenized_docs

\* a tuning in which the second candidate scored above the first and
\* became the pair of the model
C21_Witness ==
    /\ probe.op = "tune_parameters"
    /\ ~probe.output.raised
    /\ Len(probe.output.evaluated) = 2
    /\ probe.output.evaluated[1] > 0
    /\ probe.output.evaluated[2] > probe.output.evaluated[1]
    /\ bm25.b = 30
    /\ bm25.k1 = 5
    /\ probe.input.bm25.b = BDefault

----------------------------------------------------------------------------
(* The scores of a fitted BM25 model on their own *)

MaxCorpus == 2
TokensPerDoc == 3

\* corpora of documents of one length over two tokens, so that two
\* documents differ in the term frequency alone
SampleCorpora ==
    UNION {[1..n -> [1..TokensPerDoc -> {"defective", "battery"}]] : n \in 1..MaxCorpus}

\* BM25().fit(corpus) followed by get_scores([token])
GetScores ==
    /\ probe.op = "none"
    /\ \E corpus \in SampleCorpora, token \in {"defective", "battery"} :
          \E bm \in {fit(NewBM25(K1Default, BDefault), corpus)} :
              probe' = [op |-> "get_scores",
                        input |-> [bm25 |-> bm, query |-> <<token>>],
                        output |-> [raised |-> GetScoresRaises(bm, <<token>>),
                                    scores |-> IF GetScoresRaises(bm, <<token>>) THEN <<>>
                                               ELSE get_scores(bm, <<token>>)]]
    /\ UNCHANGED <<searchVars, nerVars, csvVars, batch, requests>>

NextScores == GetScores \/ ReturnProbe

SpecScores == Init /\ [][NextScores]_vars

\* the term frequency of the token in document i of the model
TermFrequency(bm, i, token) ==
    IF token \in DOMAIN bm.doc_freqs[i] THEN bm.doc_freqs[i][token] ELSE 0

\* C22: of two documents of the same length in one fitted model, the one
\* that holds the query's token at least as often gets at least the same
\* score from get_scores for that token.
C22_ScoreMonotoneInTf ==
    (probe.op = "get_scores" /\ ~probe.output.raised) =>
        LET bm == probe.input.bm25
            token == probe.input.query[1]
        IN  \A i, j \in 1..bm.N :
                (/\ bm.doc_len[i] = bm.doc_len[j]
                 /\ TermFrequency(bm, i, token) <= TermFrequency(bm, j, token))
                    => probe.output.scores[i] <= probe.output.scores[j]

----------------------------------------------------------------------------
(* RegexExtractor (regex_extractor.py): the cleaning of a text. A text is  *)
(* the sequence of its characters.                                         *)

Digits == {"0", "1", "2", "3", "4", "5", "6", "7", "8", "9"}

LowerCase == <<"a", "b", "c", "d", "e", "f", "g", "h", "i", "j", "k", "l", "m",
               "n", "o", "p", "q", "r", "s", "t", "u", "v", "w", "x", "y", "z">>
UpperCase == <<"A", "B", "C", "D", "E", "F", "G", "H", "I", "J", "K", "L", "M",
               "N", "O", "P", "Q", "R", "S", "T", "U", "V", "W", "X", "Y", "Z">>

\* the characters \w and \s match
WordChars == Range(LowerCase) \cup Range(UpperCase) \cup Digits \cup {"_"}
SpaceChars == {" ", "\t"}

\* the characters the last substitution keeps besides \w and \s
KeptPunctuation == {".", ",", "!", "?", ";", ":", "(", ")", "-", "'", "\"", "$", "%"}

\* the first position from i on whose character is not in the class
RECURSIVE SkipRun(_, _, _)
SkipRun(s, i, class) ==
    IF i <= Len(s) /\ s[i] \in class THEN SkipRun(s, i + 1, class) ELSE i

StartsWith(s, i, word) ==
    /\ i + Len(word) - 1 <= Len(s)
    /\ \A k \in DOMAIN word : s[i + k - 1] = word[k]

\* the position after the URL that starts at i, or 0 when none does:
\* https?://(?:[-\w.])+(?:[:\d]+)?(?:/(?:[\w/_.])*(?:\?(?:[\w&=%.])*)?(?:#(?:[\w.])*)?)?
UrlEnd(s, i) ==
    LET host == IF StartsWith(s, i, <<"h", "t", "t", "p", "s", ":", "/", "/">>) THEN i + 8
                ELSE IF StartsWith(s, i, <<"h", "t", "t", "p", ":", "/", "/">>) THEN i + 7
                ELSE 0
        port == SkipRun(s, host, WordChars \cup {"-", "."})
        path == SkipRun(s, port, Digits \cup {":"})
        query == IF path <= Len(s) /\ s[path] = "/"
                 THEN SkipRun(s, path + 1, WordChars \cup {"/", "."}) ELSE 0
        fragment == IF query > 0 /\ query <= Len(s) /\ s[query] = "?"
                    THEN SkipRun(s, query + 1, WordChars \cup {"&", "=", "%", "."})
                    ELSE query
        end == IF fragment > 0 /\ fragment <= Len(s) /\ s[fragment] = "#"
               THEN SkipRun(s, fragment + 1, WordChars \cup {"."})
               ELSE fragment
    IN  IF host = 0 \/ port = host THEN 0
        ELSE IF query = 0 THEN path ELSE end

\* re.sub(<the URL pattern>, '', text), from position i on
RECURSIVE RemoveUrls(_, _)
RemoveUrls(s, i) ==
    IF i > Len(s) THEN <<>>
    ELSE IF UrlEnd(s, i) > 0 THEN RemoveUrls(s, UrlEnd(s, i))
    ELSE <<s[i]>> \o RemoveUrls(s, i + 1)

\* re.sub(r'[@#]\w+', '', text), from position i on
RECURSIVE RemoveMentions(_, _)
RemoveMentions(s, i) ==
    IF i > Len(s) THEN <<>>
    ELSE IF s[i] \in {"@", "#"} /\ i < Len(s) /\ s[i + 1] \in WordChars
         THEN RemoveMentions(s, SkipRun(s, i + 1, WordChars))
         ELSE <<s[i]>> \o RemoveMentions(s, i + 1)

\* re.sub(r'\s+', ' ', text), from position i on
RECURSIVE NormalizeSpaces(_, _)
NormalizeSpaces(s, i) ==
    IF i > Len(s) THEN <<>>
    ELSE IF s[i] \in SpaceChars
         THEN <<" ">> \o NormalizeSpaces(s, SkipRun(s, i, SpaceChars))
         ELSE <<s[i]>> \o NormalizeSpaces(s, i + 1)

\* re.sub(r'[^\w\s.,!?;:()\-\'\"$%]', '', text)
RemoveDisallowed(s) ==
    SelectSeq(s, LAMBDA c : c \in WordChars \cup SpaceChars \cup KeptPunctuation)

\* str.strip()
RECURSIVE StripSpaces(_)
StripSpaces(s) ==
    IF s = <<>> THEN s
    ELSE IF Head(s) \in SpaceChars THEN StripSpaces(Tail(s))
    ELSE IF s[Len(s)] \in SpaceChars THEN StripSpaces(SubSeq(s, 1, Len(s) - 1))
    ELSE s

\* RegexExtractor._clean_text_internal
_clean_text_internal(text) ==
    StripSpaces(RemoveDisallowed(NormalizeSpaces(
        RemoveMentions(RemoveUrls(text, 1), 1), 1)))

\* RegexExtractor.clean_text: "" for an empty text; the cache returns what
\* _clean_text_internal returns
clean_text(text) == IF text = <<>> THEN <<>> ELSE _clean_text_internal(text)

MaxChars == 5

\* every text of at most MaxChars characters over a word character, a
\* space, a character the cleaning drops and the mark of a mention, and
\* three texts with a URL
SampleCleanTexts ==
    UNION {[1..n -> {"a", " ", "*", "@"}] : n \in 0..MaxChars}
        \cup { <<"a", " ", "h", "t", "t", "p", ":", "/", "/", "x", ".", "a", " ", "b">>,
               <<"h", "t", "t", "p", "s", ":", "/", "/", "x", "/", "a", "?", "b", "=", "1",
                 "#", "a", " ", "*", " ", "b">>,
               <<"a", "\t", "\t", "#", "a", " ", "h", "t", "t", "p", ":", "/", "/", " ", "b">> }

\* a call of clean_text
CleanText ==
    /\ probe.op = "none"
    /\ \E text \in SampleCleanTexts :
          probe' = [op |-> "clean_text", input |-> text, output |-> clean_text(text)]
    /\ UNCHANGED <<searchVars, nerVars, csvVars, batch, requests>>

----------------------------------------------------------------------------
(* RegexExtractor: the prices of a text *)

\* str.lower() of one character
LowerChar(c) ==
    IF c \in Range(UpperCase)
    THEN LowerCase[CHOOSE k \in DOMAIN UpperCase : UpperCase[k] = c]
    ELSE c

\* the word, in lower case, stands at position i whatever the case
\* (re.IGNORECASE)
StartsWithIgnoringCase(s, i, word) ==
    /\ i + Len(word) - 1 <= Len(s)
    /\ \A k \in DOMAIN word : LowerChar(s[i + k - 1]) = word[k]

\* the position after the first of the alternatives, in their order, that
\* stands at position i, or i when none does: an optional group
RECURSIVE AfterOptional(_, _, _)
AfterOptional(s, i, alternatives) ==
    IF alternatives = <<>> THEN i
    ELSE IF StartsWithIgnoringCase(s, i, Head(alternatives))
         THEN i + Len(Head(alternatives))
         ELSE AfterOptional(s, i, Tail(alternatives))

\* (?:USD?|GBP|EUR|CAD)? and (?:USD?|dollars?|GBP|pounds?|EUR|euros?|CAD)?,
\* the longer form of an alternative with an optional letter first
currency_codes == <<<<"u", "s", "d">>, <<"u", "s">>, <<"g", "b", "p">>, <<"e", "u", "r">>,
                    <<"c", "a", "d">>>>
currency_words ==
    <<<<"u", "s", "d">>, <<"u", "s">>, <<"d", "o", "l", "l", "a", "r", "s">>,
      <<"d", "o", "l", "l", "a", "r">>, <<"g", "b", "p">>,
      <<"p", "o", "u", "n", "d", "s">>, <<"p", "o", "u", "n", "d">>, <<"e", "u", "r">>,
      <<"e", "u", "r", "o", "s">>, <<"e", "u", "r", "o">>, <<"c", "a", "d">>>>

IsDigit(s, i) == i <= Len(s) /\ s[i] \in Digits

\* (?:,\d{3})* from position i
RECURSIVE AfterThousands(_, _)
AfterThousands(s, i) ==
    IF i <= Len(s) /\ s[i] = "," /\ IsDigit(s, i + 1) /\ IsDigit(s, i + 2) /\ IsDigit(s, i + 3)
    THEN AfterThousands(s, i + 4) ELSE i

\* \d{1,3} takes at most three digits, and having matched, the second
\* alternative \d+(?:\.\d{2})? of the number is never tried
MaxLeadingDigits == 3

\* \d{1,3}(?:,\d{3})*(?:\.\d{2})? from the digit at position i
AfterNumber(s, i) ==
    LET lead == Min(SkipRun(s, i, Digits), i + MaxLeadingDigits)
        groups == AfterThousands(s, lead)
    IN  IF groups <= Len(s) /\ s[groups] = "." /\ IsDigit(s, groups + 1)
           /\ IsDigit(s, groups + 2)
        THEN groups + 3 ELSE groups

\* the position after the match of the price pattern that starts at i, or
\* 0 when none starts there
PriceEnd(s, i) ==
    LET code == AfterOptional(s, i, currency_codes)
        symbol == SkipRun(s, code, SpaceChars)
        number == SkipRun(s, IF symbol <= Len(s) /\ s[symbol] \in {"$", "£", "€"}
                             THEN symbol + 1 ELSE symbol, SpaceChars)
    IN  IF IsDigit(s, number)
        THEN AfterOptional(s, SkipRun(s, AfterNumber(s, number), SpaceChars),
                           currency_words)
        ELSE 0

\* match.group().strip() with match.span(), from 0, end excluded
MatchOf(s, i, end) ==
    [text |-> StripSpaces(SubSeq(s, i, end - 1)), position |-> <<i - 1, end - 1>>]

\* RegexExtractor.extract_prices: finditer from position i on
RECURSIVE extract_prices(_, _)
extract_prices(s, i) ==
    IF i > Len(s) THEN <<>>
    ELSE IF PriceEnd(s, i) > 0
         THEN <<MatchOf(s, i, PriceEnd(s, i))>> \o extract_prices(s, PriceEnd(s, i))
         ELSE extract_prices(s, i + 1)

\* the text of the scenario
t_iphone ==
    <<"I", " ", "b", "o", "u", "g", "h", "t", " ", "t", "h", "e", " ", "i", "P",
      "h", "o", "n", "e", " ", "1", "4", " ", "P", "r", "o", " ", "f", "o", "r",
      " ", "$", "1", "2", "0", "0", ",", " ", "i", "t", " ", "w", "o", "r", "k",
      "s", " ", "g", "r", "e", "a", "t", ",", " ", "5", " ", "s", "t", "a", "r",
      "s">>

SamplePriceTexts ==
    { t_iphone,
      <<"$", "1", ",", "2", "0", "0">>,
      <<"$", "9", "9", " ", "U", "S", "D">>,
      <<"$", "1", "2", "0", "0", ".", "0", "0">>,
      <<"1", "2", "0", "0", " ", "d", "o", "l", "l", "a", "r", "s">>,
      <<"E", "U", "R", " ", "1", "2", ".", "5", "0">>,
      <<"n", "o", " ", "p", "r", "i", "c", "e">> }

\* a call of extract_prices
ExtractPrices ==
    /\ probe.op = "none"
    /\ \E text \in SamplePriceTexts :
          probe' = [op |-> "extract_prices", input |-> text,
                    output |-> extract_prices(text, 1)]
    /\ UNCHANGED <<searchVars, nerVars, csvVars, batch, requests>>

----------------------------------------------------------------------------
(* RegexExtractor: the ratings of a text *)

IsWord(s, i) == i >= 1 /\ i <= Len(s) /\ s[i] \in WordChars

\* \b before position i
Boundary(s, i) == IsWord(s, i - 1) # IsWord(s, i)

\* the position after the word at position i, or 0 when it is not there
AfterWord(s, i, word) ==
    IF i > 0 /\ StartsWithIgnoringCase(s, i, word) THEN i + Len(word) ELSE 0

\* the position after the first of the words that stands at position i, or 0
RECURSIVE AfterAny(_, _, _)
AfterAny(s, i, words) ==
    IF words = <<>> \/ i = 0 THEN 0
    ELSE IF StartsWithIgnoringCase(s, i, Head(words)) THEN i + Len(Head(words))
    ELSE AfterAny(s, i, Tail(words))

\* the position when \b holds before it, or 0
AtBoundary(s, i) == IF i > 0 /\ Boundary(s, i) THEN i ELSE 0

\* \s* from position i, or 0 when what stands before did not match
AfterSpaces(s, i) == IF i = 0 THEN 0 ELSE SkipRun(s, i, SpaceChars)

\* (?:\.[0-9])? from position i
AfterDecimal(s, i) ==
    IF i <= Len(s) /\ s[i] = "." /\ IsDigit(s, i + 1) THEN i + 2 ELSE i

\* \b[1-5](?:\.[0-9])?\s*(?:out\s*of\s*5\s*)?stars?\b
StarsEnd(s, i) ==
    LET scale == SkipRun(s, AfterDecimal(s, i + 1), SpaceChars)
        of == AfterWord(s, AfterSpaces(s, AfterWord(s, scale, <<"o", "u", "t">>)),
                        <<"o", "f">>)
        five == AfterWord(s, AfterSpaces(s, of), <<"5">>)
        star == AfterWord(s, IF five > 0 THEN SkipRun(s, five, SpaceChars) ELSE scale,
                          <<"s", "t", "a", "r">>)
    IN  IF ~(Boundary(s, i) /\ s[i] \in {"1", "2", "3", "4", "5"}) THEN 0
        ELSE IF AtBoundary(s, AfterWord(s, star, <<"s">>)) > 0 THEN star + 1
        ELSE AtBoundary(s, star)

\* \b[1-5]/5\b
OfFiveEnd(s, i) ==
    IF Boundary(s, i) /\ s[i] \in {"1", "2", "3", "4", "5"}
    THEN AtBoundary(s, AfterWord(s, i + 1, <<"/", "5">>))
    ELSE 0

\* [0-9]{1,2} and [0-9]{1,3}
MaxTenDigits == 2
MaxPercentDigits == 3

\* \b[0-9]{1,2}(?:\.[0-9])?/10\b
OfTenEnd(s, i) ==
    IF Boundary(s, i) /\ IsDigit(s, i)
    THEN AtBoundary(s, AfterWord(s, AfterDecimal(s, Min(SkipRun(s, i, Digits),
                                                         i + MaxTenDigits)),
                                 <<"/", "1", "0">>))
    ELSE 0

\* \b[0-9]{1,3}%\s*(?:satisfied|recommend|positive)\b
PercentEnd(s, i) ==
    IF Boundary(s, i) /\ IsDigit(s, i)
    THEN AtBoundary(s, AfterAny(s, AfterSpaces(s, AfterWord(s, Min(SkipRun(s, i, Digits),
                                                                    i + MaxPercentDigits),
                                                            <<"%">>)),
                                <<<<"s", "a", "t", "i", "s", "f", "i", "e", "d">>,
                                  <<"r", "e", "c", "o", "m", "m", "e", "n", "d">>,
                                  <<"p", "o", "s", "i", "t", "i", "v", "e">>>>))
    ELSE 0

rating_words ==
    <<<<"e", "x", "c", "e", "l", "l", "e", "n", "t">>, <<"g", "o", "o", "d">>,
      <<"f", "a", "i", "r">>, <<"p", "o", "o", "r">>,
      <<"t", "e", "r", "r", "i", "b", "l", "e">>>>

\* \b(?:excellent|good|fair|poor|terrible)\s*rating\b
WordRatingEnd(s, i) ==
    IF Boundary(s, i)
    THEN AtBoundary(s, AfterWord(s, AfterSpaces(s, AfterAny(s, i, rating_words)),
                                 <<"r", "a", "t", "i", "n", "g">>))
    ELSE 0

\* the position after the match of the rating pattern that starts at i: the
\* first of the five alternatives that matches there, or 0
RatingEnd(s, i) ==
    IF StarsEnd(s, i) > 0 THEN StarsEnd(s, i)
    ELSE IF OfFiveEnd(s, i) > 0 THEN OfFiveEnd(s, i)
    ELSE IF OfTenEnd(s, i) > 0 THEN OfTenEnd(s, i)
    ELSE IF PercentEnd(s, i) > 0 THEN PercentEnd(s, i)
    ELSE WordRatingEnd(s, i)

\* word in text
Contains(s, word) == \E i \in DOMAIN s : StartsWith(s, i, word)

DigitValue(c) ==
    CASE c = "0" -> 0 [] c = "1" -> 1 [] c = "2" -> 2 [] c = "3" -> 3 [] c = "4" -> 4
      [] c = "5" -> 5 [] c = "6" -> 6 [] c = "7" -> 7 [] c = "8" -> 8 [] c = "9" -> 9

\* int of the digits from position i to position j
RECURSIVE IntOf(_, _, _)
IntOf(s, i, j) == IF j < i THEN 0 ELSE IntOf(s, i, j - 1) * 10 + DigitValue(s[j])

\* float of the first \d+(?:\.\d+)? of the string, in tenths, or None; the
\* strings in use have at most one digit after the point
FirstNumber(s) ==
    IF \A i \in DOMAIN s : s[i] \notin Digits THEN None
    ELSE LET i == CHOOSE k \in DOMAIN s :
                      /\ s[k] \in Digits
                      /\ \A m \in 1..(k - 1) : s[m] \notin Digits
             j == SkipRun(s, i, Digits)
         IN  10 * IntOf(s, i, j - 1)
                 + (IF j < Len(s) /\ s[j] = "." /\ IsDigit(s, j + 1)
                    THEN DigitValue(s[j + 1]) ELSE 0)

\* RegexExtractor._normalize_rating, the score in tenths
_normalize_rating(rating_str) ==
    LET lower == [i \in DOMAIN rating_str |-> LowerChar(rating_str[i])]
    IN  IF Contains(lower, <<"5">>) \/ Contains(lower, rating_words[1]) THEN 50
        ELSE IF Contains(lower, <<"4">>) \/ Contains(lower, rating_words[2]) THEN 40
        ELSE IF Contains(lower, <<"3">>) \/ Contains(lower, rating_words[3]) THEN 30
        ELSE IF Contains(lower, <<"2">>) \/ Contains(lower, rating_words[4]) THEN 20
        ELSE IF Contains(lower, <<"1">>) \/ Contains(lower, rating_words[5]) THEN 10
        ELSE FirstNumber(lower)

\* RegexExtractor.extract_ratings: finditer from position i on
RECURSIVE extract_ratings(_, _)
extract_ratings(s, i) ==
    IF i > Len(s) THEN <<>>
    ELSE IF RatingEnd(s, i) > 0
         THEN <<[rating |-> MatchOf(s, i, RatingEnd(s, i)).text,
                 position |-> MatchOf(s, i, RatingEnd(s, i)).position,
                 normalized_score |->
                     _normalize_rating(MatchOf(s, i, RatingEnd(s, i)).text)]>>
                  \o extract_ratings(s, RatingEnd(s, i))
         ELSE extract_ratings(s, i + 1)

SampleRatingTexts ==
    { t_iphone,
      <<"4", ".", "5", " ", "o", "u", "t", " ", "o", "f", " ", "5", " ", "s", "t", "a", "r", "s">>,
      <<"3", "/", "5">>,
      <<"7", ".", "5", "/", "1", "0", ",", " ", "1", "0", "/", "1", "0">>,
      <<"6", "0", "%", " ", "s", "a", "t", "i", "s", "f", "i", "e", "d">>,
      <<"0", "%", " ", "p", "o", "s", "i", "t", "i", "v", "e">>,
      <<"G", "o", "o", "d", " ", "r", "a", "t", "i", "n", "g">>,
      <<"1", "0", "0", "%", " ", "r", "e", "c", "o", "m", "m", "e", "n", "d">>,
      <<"r", "a", "t", "e", "d", " ", "2", " ", "s", "t", "a", "r">>,
      <<"9", " ", "s", "t", "a", "r", "s">> }

\* a call of extract_ratings
ExtractRatings ==
    /\ probe.op = "none"
    /\ \E text \in SampleRatingTexts :
          probe' = [op |-> "extract_ratings", input |-> text,
                    output |-> extract_ratings(text, 1)]
    /\ UNCHANGED <<searchVars, nerVars, csvVars, batch, requests>>

----------------------------------------------------------------------------
(* RegexExtractor.batch_extract: the jobs run on the threads of a pool of  *)
(* max_workers and end in any order; the caller collects them as they end. *)
(* A text is an object: a str with its characters, None, or a float (the   *)
(* NaN pandas gives for a missing cell).                                   *)

Str(chars) == [type |-> "str", value |-> chars]
NoneObject == [type |-> "NoneType", value |-> <<>>]
NaN == [type |-> "float", value |-> <<>>]

\* len(text) raises TypeError
LenRaises(text) == text.type # "str"

\* bool(text): NaN is true, None and "" are false
Truthy(text) == text.type = "float" \/ (text.type = "str" /\ text.value # <<>>)

\* the record of a text that could not be processed
FailureRecord(text_length) ==
    [prices |-> <<>>, ratings |-> <<>>, text_length |-> text_length,
     processing_successful |-> FALSE]

\* RegexExtractor.extract_all_patterns on an object, with the prices and the
\* ratings of the result: the extractors catch what finditer raises and
\* return []; len(text) of the summary raises for what is not a str, and
\* the handler's "len(text) if text else 0" raises again for a true object
AllPatterns(text) ==
    IF ~LenRaises(text)
    THEN [raised |-> FALSE,
          result |-> [prices |-> extract_prices(text.value, 1),
                      ratings |-> extract_ratings(text.value, 1),
                      text_length |-> Len(text.value),
                      processing_successful |-> TRUE]]
    ELSE IF Truthy(text) THEN [raised |-> TRUE, result |-> FailureRecord(0)]
    ELSE [raised |-> FALSE, result |-> FailureRecord(0)]

MaxBatch == 2
MaxWorkers == 2

SampleBatchTexts ==
    { Str(<<"5", " ", "s", "t", "a", "r", "s">>), Str(<<"$", "9", "9">>), NoneObject, NaN }

Pending(i) == batch.futures[i].state = "pending"
Running(i) == batch.futures[i].state = "running"
Done(i) == batch.futures[i].state = "done"

\* lines 402-416: [] for no texts; otherwise every text is submitted and
\* results is [None] * len(texts)
BatchExtract ==
    /\ batch.pc = "idle"
    /\ \E n \in 0..MaxBatch, max_workers \in 1..MaxWorkers :
          \E texts \in [1..n -> SampleBatchTexts] :
              batch' = IF texts = <<>> THEN [NoBatch EXCEPT !.pc = "returned"]
                       ELSE [pc |-> "collecting", texts |-> texts,
                             max_workers |-> max_workers,
                             futures |-> [i \in 1..n |->
                                             [state |-> "pending", outcome |-> <<>>,
                                              collected |-> FALSE]],
                             results |-> [i \in 1..n |-> <<>>],
                             raised |-> FALSE]
    /\ UNCHANGED <<searchVars, nerVars, csvVars, probe, requests>>

\* a free thread of the pool takes the job submitted first
StartJob ==
    /\ batch.pc \in {"collecting", "shutdown"}
    /\ Cardinality({i \in DOMAIN batch.futures : Running(i)}) < batch.max_workers
    /\ \E i \in DOMAIN batch.futures :
          /\ Pending(i)
          /\ \A j \in 1..(i - 1) : ~Pending(j)
          /\ batch' = [batch EXCEPT !.futures[i].state = "running"]
    /\ UNCHANGED <<searchVars, nerVars, csvVars, probe, requests>>

\* a running job ends: its future holds the result or the exception
FinishJob ==
    /\ batch.pc \in {"collecting", "shutdown"}
    /\ \E i \in DOMAIN batch.futures :
          /\ Running(i)
          /\ batch' = [batch EXCEPT !.futures[i].state = "done",
                                    !.futures[i].outcome = <<AllPatterns(batch.texts[i])>>]
    /\ UNCHANGED <<searchVars, nerVars, csvVars, probe, requests>>

\* lines 419-437: as_completed yields a future that ended; its result, or
\* the failure record, goes to results[text_index]; len(texts[text_index])
\* of the failure record raises out of the handler for what is not a str
Collect ==
    /\ batch.pc = "collecting"
    /\ \E i \in DOMAIN batch.futures :
          /\ Done(i)
          /\ ~batch.futures[i].collected
          /\ LET outcome == batch.futures[i].outcome[1]
             IN  batch' =
                     IF ~outcome.raised
                     THEN [batch EXCEPT !.futures[i].collected = TRUE,
                                        !.results[i] = <<outcome.result>>]
                     ELSE IF LenRaises(batch.texts[i])
                     THEN [batch EXCEPT !.futures[i].collected = TRUE,
                                        !.pc = "shutdown", !.raised = TRUE]
                     ELSE [batch EXCEPT !.futures[i].collected = TRUE,
                                        !.results[i] =
                                            <<FailureRecord(Len(batch.texts[i].value))>>]
    /\ UNCHANGED <<searchVars, nerVars, csvVars, probe, requests>>

\* the end of the with block waits for the jobs of the pool; then the
\* call returns results, or the exception of the handler leaves it
ReturnBatch ==
    /\ \/ /\ batch.pc = "collecting"
          /\ \A i \in DOMAIN batch.futures : batch.futures[i].collected
       \/ /\ batch.pc = "shutdown"
          /\ \A i \in DOMAIN batch.futures : Done(i)
    /\ batch' = [batch EXCEPT !.pc = "returned"]
    /\ UNCHANGED <<searchVars, nerVars, csvVars, probe, requests>>

\* the caller takes the list, or the exception
TakeBatch ==
    /\ batch.pc = "returned"
    /\ batch' = NoBatch
    /\ UNCHANGED <<searchVars, nerVars, csvVars, probe, requests>>

NextBatch == BatchExtract \/ StartJob \/ FinishJob \/ Collect \/ ReturnBatch \/ TakeBatch

SpecBatch == Init /\ [][NextBatch]_vars

\* C24: when batch_extract ends it returns a list with one entry for each
\* text, none unset: the result of extract_all_patterns on that text, or,
\* when the job of the text raised, a record with processing_successful
\* False.
C24_ResultsInInputOrder ==
    batch.pc = "returned" =>
        /\ ~batch.raised
        /\ Len(batch.results) = Len(batch.texts)
        /\ \A i \in DOMAIN batch.texts :
              /\ batch.results[i] # <<>>
              /\ IF AllPatterns(batch.texts[i]).raised
                 THEN ~batch.results[i][1].processing_successful
                 ELSE batch.results[i][1] = AllPatterns(batch.texts[i]).result

----------------------------------------------------------------------------
(* The functions of the pattern extractor on their own *)

NextPatterns == CleanText \/ ExtractPrices \/ ExtractRatings \/ ReturnProbe

SpecPatterns == Init /\ [][NextPatterns]_vars

\* C23: the cleaning of a cleaned text returns it unchanged.
C23_CleanTextIdempotent ==
    probe.op = "clean_text" => clean_text(probe.output) = probe.output

\* C26: the prices extracted from the text of the scenario include a
\* match whose value is $1200.
C26_PriceOfScenario ==
    (probe.op = "extract_prices" /\ probe.input = t_iphone) =>
        \E k \in DOMAIN probe.output : probe.output[k].text = <<"$", "1", "2", "0", "0">>

\* the scale of the normalized ratings, in tenths
MaxScore == 50

\* C27: every rating extract_ratings returns has a normalized score that
\* is None or a number between 0 and 5.
C27_NormalizedScoreOnScale ==
    probe.op = "extract_ratings" =>
        \A k \in DOMAIN probe.output :
            probe.output[k].normalized_score \in Int
                => /\ probe.output[k].normalized_score >= 0
                   /\ probe.output[k].normalized_score <= MaxScore

----------------------------------------------------------------------------
(* The three queries of the index, used by one caller at a time *)

\* a call of search(query, top_k) with the query a method built
SearchFor(query) ==
    /\ lastSearch = NoSearch
    /\ probe.op = "none"
    /\ \E top_k \in 0..MaxTopK :
        \E order \in Orders(bm25, query) :
            \E dicts \in {SearchDicts(metadata, tokenized_docs, bm25, query, top_k, order)} :
                /\ lastSearch' = [search(metadata, tokenized_docs, bm25, query, top_k, order)
                                      EXCEPT !.results = dicts.results]
                /\ metadata' = dicts.metadata
    /\ UNCHANGED <<documents, tokenized_docs, bm25, rebuild, indexed, nerVars, csvVars,
                   probe, batch, requests>>

SearchQuery == \E query \in SampleQueries : SearchFor(query)

SearchByProduct ==
    \E product_name \in {"TV", "Battery", "screen"} : SearchFor(ProductQuery(product_name))

SearchBySentiment ==
    \E sentiment \in {"POSITIVE", "Negative", "neutral", "Defective"} :
        SearchFor(SentimentQuery(sentiment))

NextQueries ==
    IndexDocuments \/ SearchQuery \/ SearchByProduct \/ SearchBySentiment \/ ReturnSearch

SpecQueries == Init /\ [][NextQueries]_vars

\* the keys search adds to the dict of a result
AddedKeys == {"similarity_score", "bm25_score", "matched_text", "query_tokens"}

\* C25: a call of search, search_by_product or search_by_sentiment leaves
\* the documents, the metadata, the tokenized documents and the BM25 model
\* as they were, and no stored metadata dict has a key the search adds to
\* its results.
C25_QueriesReadOnly ==
    [][(~lastSearch.called /\ lastSearch'.called) =>
           /\ documents' = documents
           /\ metadata' = metadata
           /\ tokenized_docs' = tokenized_docs
           /\ bm25' = bm25
           /\ \A i \in DOMAIN metadata' : DOMAIN metadata'[i] \cap AddedKeys = {}]_vars

\* a search by sentiment returned a dict with the added keys, made from the
\* stored dict of the same review
C25_Witness ==
    /\ lastSearch.called
    /\ lastSearch.query = SentimentQuery("Negative")
    /\ lastSearch.results # <<>>
    /\ AddedKeys \subseteq DOMAIN lastSearch.results[1]
    /\ \E i \in DOMAIN metadata :
          /\ metadata[i].id = lastSearch.results[1].id
          /\ lastSearch.results[1].matched_text = tokenized_docs[i]

----------------------------------------------------------------------------
(* Batches of reviews *)

\* OpinionExtractor.__init__ on one of the machines
InitCsv ==
    /\ documents = <<>>
    /\ metadata = <<>>
    /\ tokenized_docs = <<>>
    /\ bm25 = NewBM25(K1Default, BDefault)
    /\ lastSearch = NoSearch
    /\ rebuild = Idle
    /\ indexed = <<>>
    /\ \E env \in CsvMachines :
          /\ model_type = _initialize_lightweight_model(env).model_type
          /\ primary_model = _initialize_lightweight_model(env).primary_model
          /\ nerStatus = [state |-> "built", env |-> NoEnvironment]
    /\ processed_count = 0
    /\ monitor = NoMonitor
    /\ nerOut = NoCall
    /\ CsvInit
    /\ probe = NoProbe
    /\ batch = NoBatch
    /\ requests = NoRequests

NextCsv == ProcessCsv \/ ReturnCsv

SpecCsv == InitCsv /\ [][NextCsv]_vars

\* the call that has just ended read its dataset and found the column
Processing ==
    /\ csvOut.called
    /\ csvOut.dataset.readable
    /\ csvOut.text_column \in Range(csvOut.dataset.columns)

\* C7: a process_csv call on a readable dataset with the text column
\* does not raise whatever stage fails on a row: it returns one entry per
\* row, the entry of a row on which the tagger's backend raised has no
\* entities, and the result is stored and indexed.
C7_RowErrorsIsolated ==
    Processing =>
        /\ ~csvOut.raised
        /\ Len(csvOut.result) = Len(csvOut.dataset.rows)
        /\ \A i \in DOMAIN csvOut.result :
              (csvOut.dataset.rows[i].fault = "entity" /\ model_type # "regex")
                  => csvOut.result[i].entities = <<>>
        /\ processed_reviews = csvOut.result
        /\ metadata = csvOut.result

\* C8: a process_csv call whose text column is not a column of the
\* dataset prints a message with the column and the dataset's columns,
\* returns the empty list without raising, processes no review, and
\* leaves the stored reviews, the graph and the index as they were.
C8_MissingColumnRejected ==
    [][(csvOut'.called /\ ~csvOut.called /\ csvOut'.dataset.readable
            /\ csvOut'.text_column \notin Range(csvOut'.dataset.columns))
        => /\ ~csvOut'.raised
           /\ csvOut'.result = <<>>
           /\ csvOut'.message = ColumnNotFound(csvOut'.text_column, csvOut'.dataset.columns)
           /\ csvOut'.processed = 0
           /\ processed_count' = processed_count
           /\ UNCHANGED <<processed_reviews, graph, documents, metadata, tokenized_docs, bm25>>]_vars

\* a batch was processed, stored, put in the graph and indexed, and a
\* later call on a dataset with rows asked for a column it does not have
C8_Witness ==
    /\ csvOut.called /\ csvOut.dataset.readable
    /\ csvOut.text_column \notin Range(csvOut.dataset.columns)
    /\ csvOut.dataset.rows # <<>>
    /\ csvOut.result = <<>>
    /\ processed_reviews # <<>>
    /\ graph # {}
    /\ documents # <<>>

\* the event nodes of a graph: the subjects of its triples
EventNodes(g) == {triple[1] : triple \in g}

\* the node event_<review_id>_<type>
EventNode(review_id, type) == <<"event", <<"event", review_id, type>>>>

\* the nodes named by the events of a list of reviews
NodesOf(reviews) ==
    UNION { {EventNode(reviews[r].id, reviews[r].events[e].type) :
                 e \in DOMAIN reviews[r].events} : r \in DOMAIN reviews }

\* C30: no step removes a triple of the graph; a process_csv call that
\* returns its batch leaves in the graph every triple it held before and,
\* for every event of the batch, the type and the trigger of the event under
\* the node event_<review_id>_<type>, while processed_reviews and the index
\* hold the reviews of this batch only; the nodes of the graph are the nodes
\* it had and one node for every pair of review id and type of the batch,
\* so events that share the pair share the node.
C30_GraphOnlyGrows ==
    [][/\ graph \subseteq graph'
       /\ (csvOut'.called /\ ~csvOut.called /\ ~csvOut'.raised
               /\ csvOut'.dataset.readable
               /\ csvOut'.text_column \in Range(csvOut'.dataset.columns))
          => /\ \A r \in DOMAIN csvOut'.result :
                   \A e \in DOMAIN csvOut'.result[r].events :
                       LET event == csvOut'.result[r].events[e]
                           node == EventNode(csvOut'.result[r].id, event.type)
                       IN  /\ <<node, "rdf:type", <<"event", Capitalize(event.type)>>>> \in graph'
                           /\ <<node, "hasTrigger", event.trigger>> \in graph'
             /\ EventNodes(graph') = EventNodes(graph) \cup NodesOf(csvOut'.result)
             /\ processed_reviews' = csvOut'.result
             /\ metadata' = csvOut'.result]_vars

\* after a second batch the node of review_0 holds the object of an event of
\* the first batch next to the object of the event of the second, and the
\* stored reviews are those of the second batch
C30_Witness ==
    /\ csvOut.called /\ ~csvOut.raised
    /\ processed_reviews # <<>>
    /\ processed_reviews = csvOut.result
    /\ \E old \in graph \ create_product_sentiment_graph(processed_reviews) :
          \E new \in create_product_sentiment_graph(processed_reviews) :
              /\ old[1] = new[1]
              /\ old[2] = "hasObject" /\ new[2] = "hasObject"
              /\ old[3] # new[3]

----------------------------------------------------------------------------
(* process_csv called by the request threads: app.py gives every request   *)
(* to the one extractor and takes no lock, so another call can run between *)
(* the assignment of processed_reviews (109), the creation of the graph    *)
(* (113) and the indexing (117) of a call.                                 *)

\* the files the requests name: a file that cannot be read, a file without
\* the column, and files of rows of which the last one fails in the
\* relation stage
RequestRows == {Row(row_tv, "none"), Row(row_bat, "none"), Row(row_ok, "relation")}

RequestDatasets(budget) ==
    {Dataset(FALSE, <<"review_text", "rating">>, <<>>),
     Dataset(TRUE, <<"text", "stars">>, <<>>)}
        \cup {Dataset(TRUE, <<"review_text", "rating">>, rows) :
                 rows \in UNION {[1..k -> RequestRows] : k \in 0..Min(MaxRows, budget \div 5)}}

\* the request records the position of its call
AtLine(t, pc, reviews, raised, result) ==
    [requests EXCEPT ![t] = [pc |-> pc, reviews |-> reviews, raised |-> raised,
                             result |-> result]]

\* lines 84-107 on thread t: the file is read, the column is looked up and
\* the rows are processed into the local list; the call returns [] on a
\* file or a column it cannot use and ends with the exception of a row
ReadAndProcess(t) ==
    /\ nerStatus.state = "built"
    /\ requests[t].pc = "idle"
    /\ \E dataset \in RequestDatasets(CsvMaxProcessed - processed_count),
          text_column \in {"review_text"} :
          IF ~dataset.readable \/ ColumnMissing(dataset.columns, text_column)
          THEN /\ requests' = AtLine(t, "ended", <<>>, FALSE, <<>>)
               /\ UNCHANGED <<processed_count, model_type, monitor>>
          ELSE \E loop \in {ProcessRows(model_type, primary_model, processed_count,
                                        dataset.rows, 1, <<>>, monitor)} :
                  /\ requests' = IF loop.raised
                                 THEN AtLine(t, "ended", <<>>, TRUE, <<>>)
                                 ELSE AtLine(t, "processed", loop.reviews, FALSE, <<>>)
                  /\ processed_count' = loop.processed_count
                  /\ model_type' = loop.model_type
                  /\ monitor' = loop.monitor
    /\ UNCHANGED <<searchVars, primary_model, nerStatus, nerOut, csvVars, probe, batch>>

\* line 109: self.processed_reviews = processed_reviews
StoreReviews(t) ==
    /\ requests[t].pc = "processed"
    /\ processed_reviews' = requests[t].reviews
    /\ requests' = AtLine(t, "stored", requests[t].reviews, FALSE, <<>>)
    /\ UNCHANGED <<searchVars, nerVars, graph, csvOut, probe, batch>>

\* line 113: the events of the list are added to the graph; no handler is
\* around the call, so an exception of the graph's store ends process_csv
\* here
CreateGraph(t) ==
    /\ requests[t].pc = "stored"
    /\ \/ /\ graph' = graph \cup create_product_sentiment_graph(requests[t].reviews)
          /\ requests' = AtLine(t, "graphed", requests[t].reviews, FALSE, <<>>)
       \/ /\ graph' = graph
          /\ requests' = AtLine(t, "ended", <<>>, TRUE, <<>>)
    /\ UNCHANGED <<searchVars, nerVars, processed_reviews, csvOut, probe, batch>>

\* lines 117-120: the list is indexed and returned
IndexReviews(t) ==
    /\ requests[t].pc = "graphed"
    /\ \E index \in {index_documents(bm25, requests[t].reviews)} :
          /\ documents' = index.documents
          /\ metadata' = index.metadata
          /\ tokenized_docs' = index.tokenized_docs
          /\ bm25' = index.bm25
    /\ indexed' = requests[t].reviews
    /\ requests' = AtLine(t, "ended", <<>>, FALSE, requests[t].reviews)
    /\ UNCHANGED <<lastSearch, rebuild, nerVars, csvVars, probe, batch>>

\* the handler of the request takes the result, or the exception
ReturnRequest(t) ==
    /\ requests[t].pc = "ended"
    /\ requests' = [requests EXCEPT ![t] = NoRequest]
    /\ UNCHANGED <<searchVars, nerVars, csvVars, probe, batch>>

NextRequests ==
    \E t \in Threads :
        \/ ReadAndProcess(t)
        \/ StoreReviews(t)
        \/ CreateGraph(t)
        \/ IndexReviews(t)
        \/ ReturnRequest(t)

SpecRequests == InitCsv /\ [][NextRequests]_vars

\* no other call is between its first row and its return
Alone(t) == \A u \in Threads \ {t} : requests[u].pc = "idle"

\* C29: when a process_csv call has ended, by returning its result, by
\* returning [] for a file or a column it cannot use, or with the exception
\* of a row or of the creation of the graph, the reviews of the search
\* index are the reviews of processed_reviews, in the same order.
C29_IndexMatchesProcessedReviews ==
    \A t \in Threads :
        (requests[t].pc = "ended" /\ Alone(t)) => metadata = processed_reviews

====
